---------------------------- MODULE Spec2Model ----------------------------
(***************************************************************************)
(* A model of the ultrathink flat-file knowledge base: kb.md as written by *)
(* native-host/host.py and as read and mutated by kb-server.py.            *)
(*                                                                         *)
(* Text is a sequence of tokens.  A token is one punctuation character     *)
(* ("-", " ", "|", "[", ...) or a word of characters that no pattern of     *)
(* the code looks into ("Notes", "T1", "http://").  A line is a token      *)
(* sequence without its line break; kb.md is a sequence of lines.          *)
(***************************************************************************)
EXTENDS Integers, Sequences, FiniteSets, TLC

(***************************************************************************)
(* str methods of Python, on token sequences                               *)
(***************************************************************************)
Whitespace == {" ", "\n", "\t"}

StartsWith(s, p) == Len(s) >= Len(p) /\ SubSeq(s, 1, Len(p)) = p

DropN(s, n) == SubSeq(s, n + 1, Len(s))

Contains(s, p) ==
    \E i \in 1..(Len(s) - Len(p) + 1) : SubSeq(s, i, i + Len(p) - 1) = p

\* index of the first token t in s, 0 when there is none
IndexOf(s, t) ==
    IF \E i \in 1..Len(s) : s[i] = t
    THEN CHOOSE i \in 1..Len(s) : s[i] = t /\ \A j \in 1..(i - 1) : s[j] # t
    ELSE 0

RECURSIVE LStrip(_)
LStrip(s) == IF s # <<>> /\ Head(s) \in Whitespace THEN LStrip(Tail(s)) ELSE s

RECURSIVE RStrip(_)
RStrip(s) ==
    IF s # <<>> /\ s[Len(s)] \in Whitespace THEN RStrip(SubSeq(s, 1, Len(s) - 1)) ELSE s

Strip(s) == RStrip(LStrip(s))

\* s.split(t): always at least one part
RECURSIVE SplitOn(_, _)
SplitOn(s, t) ==
    LET i == IndexOf(s, t)
    IN  IF i = 0 THEN <<s>> ELSE <<SubSeq(s, 1, i - 1)>> \o SplitOn(DropN(s, i), t)

\* sep.join(parts)
RECURSIVE Join(_, _)
Join(parts, sep) ==
    IF parts = <<>> THEN <<>>
    ELSE IF Len(parts) = 1 THEN parts[1]
    ELSE parts[1] \o sep \o Join(Tail(parts), sep)

RECURSIVE Flatten(_)
Flatten(seqs) == IF seqs = <<>> THEN <<>> ELSE Head(seqs) \o Flatten(Tail(seqs))

SelectSeqNonEmpty(seqs) == SelectSeq(seqs, LAMBDA x : x # <<>>)

MapStrip(seqs) == [i \in 1..Len(seqs) |-> Strip(seqs[i])]

\* [line.strip() for line in text.split('\n') if line.strip()]
StrippedLines(text) == SelectSeqNonEmpty(MapStrip(SplitOn(text, "\n")))

\* the line breaks a text holds split it into lines of the file
TextLines(lines) == Flatten([i \in 1..Len(lines) |-> SplitOn(lines[i], "\n")])

\* dict.get(key, default) on a record that lists the keys it holds
Get(d, k, default) == IF k \in d.keys THEN d[k] ELSE default

\* a local variable: Body applied to a value computed once
LetIn(value, Body(_)) == Body(value)

(***************************************************************************)
(* Line prefixes the code tests                                            *)
(***************************************************************************)
Bullet == <<" ", " ", "-", " ">>            \* '  - '
Indent4 == <<" ", " ", " ", " ">>           \* '    '
\* the grave accent character, which delimits type, source and timestamp
Backtick == "GRAVE"
Tick(ts) == <<Backtick>> \o ts \o <<Backtick>>   \* the timestamp between grave accents
Field(name, value) == Bullet \o name \o <<":", " ">> \o value
AISummaryName == <<"AI", " ", "Summary">>

IsBlank(line) == Strip(line) = <<>>                        \* line.strip() == ''
IsDashLine(line) == StartsWith(line, <<"-", " ">>)         \* startswith('- ')
IsNewHeader(line) == StartsWith(line, <<"-", " ", Backtick>>)  \* startswith dash, space, grave
IsOldHeader(line) == StartsWith(line, <<"-", " ", "*", "*">>)  \* startswith('- **')
IsContent(line) == StartsWith(line, Bullet)                \* startswith('  - ')
IsFieldLine(line, name) == StartsWith(line, Bullet \o name \o <<":">>)

(***************************************************************************)
(* Character counts: a word token counts its characters, every other       *)
(* token is one character.  s[:n] cuts between tokens, which is exact for  *)
(* text given character by character.                                      *)
(***************************************************************************)
\* the null byte
NulByte == "NUL"

TokLen(t) == IF t \in {Backtick, NulByte} THEN 1 ELSE Len(t)

RECURSIVE CharLen(_)
CharLen(s) == IF s = <<>> THEN 0 ELSE TokLen(Head(s)) + CharLen(Tail(s))

RECURSIVE Prefix(_, _)
Prefix(s, n) ==
    IF s = <<>> \/ TokLen(Head(s)) > n THEN <<>>
    ELSE <<Head(s)>> \o Prefix(Tail(s), n - TokLen(Head(s)))

(***************************************************************************)
(* host.py: validate_entry, format_markdown_entry                          *)
(***************************************************************************)
\* words that stand for a timestamp of the form YYYY-MM-DD HH:MM:SS
TimestampWords == {"T1", "T2", "T3"}

\* re.match(r'^\d{4}-\d{2}-\d{2} \d{2}:\d{2}:\d{2}$', timestamp): the $ also
\* matches before a line break that ends the string
MatchesTimestampFormat(ts) ==
    \/ Len(ts) = 1 /\ ts[1] \in TimestampWords
    \/ Len(ts) = 2 /\ ts[1] \in TimestampWords /\ ts[2] = "\n"

validate_entry(entry) ==
    /\ \A field \in {"type", "captured", "source"} : field \in entry.keys
    /\ MatchesTimestampFormat(entry.captured)

\* the schemes with ftp:// among them
AllowedSchemesWithFtp == {"http://", "https://", "file://", "chrome-extension://", "ftp://"}

AllowedSchemes == {"http://", "https://", "file://", "chrome-extension://"}

DescriptionLimit == 200

\* the header line: type, source, timestamp, title (linked or plain), tab group
MainLine(entry) ==
    LET title == Get(entry, "title", <<"Untitled">>)
        url == Get(entry, "url", <<>>)
        source == Get(entry, "source", <<"browser">>)
        start == <<"-", " ">> \o Tick(entry.type) \o <<" ", "|", " ">> \o Tick(source)
                 \o <<" ", "|", " ">> \o Tick(entry.captured) \o <<" ", "|", " ">>
        titled == IF url # <<>> /\ Head(url) \in AllowedSchemes
                  THEN start \o <<"[">> \o title \o <<"]", "(">> \o url \o <<")">>
                  ELSE start \o title
        tab_group == Get(entry, "tabGroup", [keys |-> {}])
        group_name == Get(tab_group, "groupName", <<>>)
        group_color == Get(tab_group, "groupColor", <<>>)
    IN  IF tab_group.keys = {} THEN titled
        ELSE IF group_name # <<>>
        THEN titled \o <<" ", "|", " ", Backtick, "group", ":", " ">> \o group_name
                    \o <<" ", "(">> \o group_color \o <<")", Backtick>>
        ELSE IF group_color # <<>>
        THEN titled \o <<" ", "|", " ", Backtick, "group", ":", " ", "(">>
                    \o group_color \o <<")", Backtick>>
        ELSE titled

QuoteLines(entry) ==
    LET text_lines == StrippedLines(Strip(Get(entry, "selectedText", <<>>)))
    IN  [i \in 1..Len(text_lines) |-> Bullet \o <<">", " ">> \o text_lines[i]]

ScreenshotLine(path) == Bullet \o <<"!", "[", "Screenshot", "]", "(">> \o path \o <<")">>
AttachmentLine(path) == Bullet \o <<"[", "Attachment", "]", "(">> \o path \o <<")">>

\* the Notes line and its continuation lines, indented by four spaces
NoteLines(notes) ==
    LET note_lines == StrippedLines(notes)
    IN  [i \in 1..Len(note_lines) |->
            IF i = 1 THEN Field(<<"Notes">>, note_lines[1]) ELSE Indent4 \o note_lines[i]]

OptField(name, value) == IF value # <<>> THEN <<Field(name, value)>> ELSE <<>>

PageMetaLines(entry) ==
    LET page_meta == Get(entry, "pageMetadata", [keys |-> {}])
        desc0 == Strip(Get(page_meta, "description", <<>>))
        desc == IF CharLen(desc0) > DescriptionLimit
                THEN Prefix(desc0, DescriptionLimit - 3) \o <<".", ".", ".">>
                ELSE desc0
        read_time == Get(page_meta, "readingTime", <<>>)
    IN  IF page_meta.keys = {} THEN <<>>
        ELSE OptField(<<"Description">>, desc)
             \o OptField(<<"Image">>, Strip(Get(page_meta, "ogImage", <<>>)))
             \o OptField(<<"Author">>, Strip(Get(page_meta, "author", <<>>)))
             \o OptField(<<"Published">>, Strip(Get(page_meta, "publishedDate", <<>>)))
             \o (IF read_time # <<>> /\ read_time # <<"0">>
                 THEN <<Field(<<"ReadTime">>, read_time \o <<" ", "min">>)>> ELSE <<>>)

\* the lines of the text returned; append_to_kb passes classification=None
\* (the list of lines is bound as a value, so that it is computed once)
format_markdown_entry(entry, screenshot_path, file_path) ==
    CHOOSE text \in {TextLines(lines) : lines \in {
        <<MainLine(entry)>>
        \o QuoteLines(entry)
        \o (IF screenshot_path # <<>> THEN <<ScreenshotLine(screenshot_path)>> ELSE <<>>)
        \o (IF file_path # <<>> THEN <<AttachmentLine(file_path)>> ELSE <<>>)
        \o NoteLines(Strip(Get(entry, "notes", <<>>)))
        \o OptField(<<"ParentId">>, Get(entry, "parentId", <<>>))
        \o OptField(<<"Related">>, Get(entry, "related", <<>>))
        \o OptField(<<"Similar">>, Get(entry, "similar", <<>>))
        \o PageMetaLines(entry)}} : TRUE

(***************************************************************************)
(* kb-server.py: the patterns and parse_kb_markdown                        *)
(***************************************************************************)
NoMatch == [ok |-> FALSE, val |-> <<>>, rest |-> <<>>]

\* [^t]+ followed by t: the tokens before the first t, at least one
SpanTo(s, t) ==
    LetIn(IndexOf(s, t), LAMBDA i :
        IF i >= 2 THEN [ok |-> TRUE, val |-> SubSeq(s, 1, i - 1), rest |-> DropN(s, i)]
        ELSE NoMatch)

\* a literal, then [^t]+, then t
LitSpanTo(s, lit, t) == IF StartsWith(s, lit) THEN SpanTo(DropN(s, Len(lit)), t) ELSE NoMatch

\* \[([^\]]+)\]\(([^)]+)\) at the start of s
LinkAt(s) ==
    LetIn(LitSpanTo(s, <<"[">>, "]"), LAMBDA a :
    LetIn(IF a.ok THEN LitSpanTo(a.rest, <<"(">>, ")") ELSE NoMatch, LAMBDA b :
        [ok |-> b.ok, text |-> a.val, target |-> b.val, rest |-> b.rest]))

NoHeader ==
    [ok |-> FALSE, type |-> <<>>, source |-> <<>>, timestamp |-> <<>>,
     title_linked |-> <<>>, url |-> <<>>, title_plain |-> <<>>, group |-> <<>>]

Sep == <<" ", "|", " ">>

\* after a match, a literal and a value up to the next grave accent
NextGroup(m, lit) == IF m.ok THEN LitSpanTo(m.rest, lit, Backtick) ELSE NoMatch

NEW_ENTRY_PATTERN(line) ==
    LetIn(LitSpanTo(line, <<"-", " ", Backtick>>, Backtick), LAMBDA g1 :
    LetIn(NextGroup(g1, Sep \o <<Backtick>>), LAMBDA g2 :
    LetIn(NextGroup(g2, Sep \o <<Backtick>>), LAMBDA g3 :
    LetIn(IF g3.ok /\ StartsWith(g3.rest, Sep) THEN DropN(g3.rest, 3) ELSE <<>>, LAMBDA tail :
    LetIn(LinkAt(tail), LAMBDA link :
        IF tail = <<>> THEN NoHeader
        ELSE IF link.ok /\ link.rest = <<>>
        THEN [NoHeader EXCEPT !.ok = TRUE, !.type = g1.val, !.source = g2.val,
                              !.timestamp = g3.val, !.title_linked = link.text,
                              !.url = link.target]
        ELSE [NoHeader EXCEPT !.ok = TRUE, !.type = g1.val, !.source = g2.val,
                              !.timestamp = g3.val, !.title_plain = tail])))))

OldSep == <<" ", "-", " ">>

\* what follows the title of a legacy header: the closing bold, type, timestamp, group
OldTail(s) ==
    LetIn(LitSpanTo(s, <<"*", "*">> \o OldSep \o <<Backtick>>, Backtick), LAMBDA g4 :
    LetIn(NextGroup(g4, OldSep \o <<Backtick>>), LAMBDA g5 :
    LetIn(NextGroup(g5, OldSep \o <<Backtick, "group", ":", " ">>), LAMBDA g6 :
        IF g5.ok /\ g5.rest = <<>>
        THEN [ok |-> TRUE, type |-> g4.val, timestamp |-> g5.val, group |-> <<>>]
        ELSE IF g6.ok /\ g6.rest = <<>>
        THEN [ok |-> TRUE, type |-> g4.val, timestamp |-> g5.val, group |-> g6.val]
        ELSE [ok |-> FALSE, type |-> <<>>, timestamp |-> <<>>, group |-> <<>>])))

\* the legacy pattern without its linked alternative
OLD_ENTRY_PATTERN_PlainOnly(line) ==
    LetIn(IF IsOldHeader(line) THEN DropN(line, 4) ELSE <<>>, LAMBDA body :
    LetIn(IndexOf(body, "*"), LAMBDA star :
    LetIn(OldTail(IF star >= 2 THEN DropN(body, star - 1) ELSE <<>>), LAMBDA viaPlain :
        IF viaPlain.ok
        THEN [NoHeader EXCEPT !.ok = TRUE, !.type = viaPlain.type,
                              !.timestamp = viaPlain.timestamp, !.group = viaPlain.group,
                              !.title_plain = SubSeq(body, 1, star - 1)]
        ELSE NoHeader)))

OLD_ENTRY_PATTERN(line) ==
    LetIn(IF IsOldHeader(line) THEN DropN(line, 4) ELSE <<>>, LAMBDA body :
    LetIn(LinkAt(body), LAMBDA link :
    LetIn(OldTail(IF link.ok THEN link.rest ELSE <<>>), LAMBDA viaLink :
    LetIn(IndexOf(body, "*"), LAMBDA star :
    LetIn(OldTail(IF star >= 2 THEN DropN(body, star - 1) ELSE <<>>), LAMBDA viaPlain :
        IF viaLink.ok
        THEN [NoHeader EXCEPT !.ok = TRUE, !.type = viaLink.type,
                              !.timestamp = viaLink.timestamp, !.group = viaLink.group,
                              !.title_linked = link.text, !.url = link.target]
        ELSE IF viaPlain.ok
        THEN [NoHeader EXCEPT !.ok = TRUE, !.type = viaPlain.type,
                              !.timestamp = viaPlain.timestamp, !.group = viaPlain.group,
                              !.title_plain = SubSeq(body, 1, star - 1)]
        ELSE NoHeader)))))

\* !\[Screenshot\]\(([^)]+)\) at position i of s
ScreenshotAt(s, i) == LitSpanTo(DropN(s, i - 1), <<"!", "[", "Screenshot", "]", "(">>, ")")

\* SCREENSHOT_PATTERN.search(s): the leftmost match
SCREENSHOT_PATTERN(s) ==
    LetIn({i \in 1..Len(s) : ScreenshotAt(s, i).ok}, LAMBDA Starts :
        IF Starts = {} THEN NoMatch
        ELSE ScreenshotAt(s, CHOOSE i \in Starts : \A j \in Starts : i <= j))

\* \[.+\]\(([^)]+)\) with the bracket opened at i and closed at k
FileAt(s, i, k) ==
    IF s[i] = "[" /\ k >= i + 2 /\ k <= Len(s) /\ s[k] = "]"
    THEN LitSpanTo(DropN(s, k), <<"(">>, ")") ELSE NoMatch

\* FILE_PATTERN.search(s): the leftmost opening bracket, the greedy .+ taking
\* the last closing bracket that a parenthesised target follows
FILE_PATTERN(s) ==
    LetIn({i \in 1..Len(s) : \E k \in 1..Len(s) : FileAt(s, i, k).ok}, LAMBDA Opens :
        IF Opens = {} THEN NoMatch
        ELSE LetIn(CHOOSE i \in Opens : \A j \in Opens : i <= j, LAMBDA i0 :
             LetIn({k \in 1..Len(s) : FileAt(s, i0, k).ok}, LAMBDA Closes :
                 FileAt(s, i0, CHOOSE k \in Closes : \A j \in Closes : j <= k))))

\* the entry object a header line opens
NewEntryObject(title, url, type, source, timestamp, group) ==
    [title |-> title, url |-> url, type |-> type, source |-> source,
     timestamp |-> timestamp, group |-> group, content |-> <<>>,
     selectedText |-> <<>>, screenshot |-> <<>>, file |-> <<>>, entity |-> <<>>,
     topics |-> <<>>, people |-> <<>>, category |-> <<>>, description |-> <<>>,
     ogImage |-> <<>>, author |-> <<>>, publishedDate |-> <<>>,
     readingTime |-> <<"0">>, aiSummary |-> <<>>, taskStatus |-> <<>>,
     in_notes |-> FALSE]

\* (a or b or '')
Or(a, b) == IF a # <<>> THEN a ELSE b

\* text += line, on a line of its own when text is not empty
AddLine(text, line) == IF text # <<>> THEN text \o <<"\n">> \o line ELSE line

SplitList(str) == MapStrip(SplitOn(str, ","))

\* s.strip('*')
RECURSIVE StripStars(_)
StripStars(s) ==
    IF s # <<>> /\ Head(s) = "*" THEN StripStars(Tail(s))
    ELSE IF s # <<>> /\ s[Len(s)] = "*" THEN StripStars(SubSeq(s, 1, Len(s) - 1))
    ELSE s

\* words that stand for a number in decimal digits
NumberWords == {"0", "1", "5", "12"}

\* re.match(r'(\d+) min', s): a number, a space, min
ReadTimeOf(s) ==
    IF Len(s) >= 3 /\ s[1] \in NumberWords /\ s[2] = " " /\ s[3] = "min"
    THEN <<s[1]>> ELSE <<>>

\* re.match(r'^    ([^-].*)$', line)
ContinuationMatch(line) ==
    IF StartsWith(line, Indent4) /\ Len(line) >= 5 /\ line[5] # "-"
    THEN [ok |-> TRUE, val |-> DropN(line, 4), rest |-> <<>>] ELSE NoMatch

\* CONTENT_PATTERN: ^  - (.+)$
ContentMatch(line) ==
    IF IsContent(line) /\ Len(line) >= 5
    THEN [ok |-> TRUE, val |-> DropN(line, 4), rest |-> <<>>] ELSE NoMatch

\* the branch of parse_kb_markdown for a content line of the current entry
ParseContent(e, content_line) ==
    LET c == content_line
        has(label) == StartsWith(c, label \o <<":", " ">>)
        val(label) == DropN(c, Len(label) + 2)
        r == [e EXCEPT !.in_notes = FALSE]
    IN  IF has(<<"Notes">>)
        THEN [r EXCEPT !.content = val(<<"Notes">>), !.in_notes = TRUE]
        ELSE IF has(<<"Entity">>) THEN [r EXCEPT !.entity = val(<<"Entity">>)]
        ELSE IF has(<<"Topics">>) THEN [r EXCEPT !.topics = SplitList(val(<<"Topics">>))]
        ELSE IF has(<<"People">>) THEN [r EXCEPT !.people = SplitList(val(<<"People">>))]
        ELSE IF has(<<"Description">>) THEN [r EXCEPT !.description = val(<<"Description">>)]
        ELSE IF has(<<"Image">>) THEN [r EXCEPT !.ogImage = val(<<"Image">>)]
        ELSE IF has(<<"Author">>) THEN [r EXCEPT !.author = val(<<"Author">>)]
        ELSE IF has(<<"Published">>) THEN [r EXCEPT !.publishedDate = val(<<"Published">>)]
        ELSE IF has(<<"ReadTime">>)
        THEN LetIn(ReadTimeOf(val(<<"ReadTime">>)), LAMBDA minutes :
                 IF minutes # <<>> THEN [r EXCEPT !.readingTime = minutes] ELSE r)
        ELSE IF has(AISummaryName) THEN [r EXCEPT !.aiSummary = val(AISummaryName)]
        ELSE IF has(<<"Status">>) THEN [r EXCEPT !.taskStatus = val(<<"Status">>)]
        ELSE IF has(<<"Category">>) THEN [r EXCEPT !.category = val(<<"Category">>)]
        ELSE IF ScreenshotAt(c, 1).ok THEN [r EXCEPT !.screenshot = ScreenshotAt(c, 1).val]
        ELSE IF StartsWith(c, <<"[">>) \/ StartsWith(c, <<"!", "[">>)
        THEN LetIn(FILE_PATTERN(c), LAMBDA file_match :
                 IF file_match.ok THEN [r EXCEPT !.file = file_match.val] ELSE r)
        ELSE IF StartsWith(c, <<">", " ">>)
        THEN [r EXCEPT !.selectedText = AddLine(e.selectedText, DropN(c, 2))]
        ELSE IF StartsWith(c, <<"*", "*">>)
        THEN [r EXCEPT !.content = AddLine(e.content, Strip(StripStars(c)))]
        ELSE [r EXCEPT !.content = AddLine(e.content, c)]

\* one iteration of the loop: st holds entries, whether an entry is open, and it
\* the entry a header match opens; the current entry, if any, is saved first
Opened(st, m, source, group) ==
    [entries |-> IF st.open THEN Append(st.entries, st.cur) ELSE st.entries,
     open |-> TRUE,
     cur |-> NewEntryObject(Strip(Or(m.title_linked, m.title_plain)), m.url, m.type,
                            source, m.timestamp, group)]

ParseLine(st, line) ==
    LetIn(NEW_ENTRY_PATTERN(line), LAMBDA new_match :
    LetIn(OLD_ENTRY_PATTERN(line), LAMBDA old_match :
    LetIn(ContinuationMatch(line), LAMBDA cont :
    LetIn(Strip(cont.val), LAMBDA cont_line :
    LetIn(ContentMatch(line), LAMBDA content_match :
        IF new_match.ok THEN Opened(st, new_match, new_match.source, <<>>)
        ELSE IF old_match.ok
        THEN Opened(st, old_match, <<"browser">>, Strip(SplitOn(old_match.group, "(")[1]))
        ELSE IF ~st.open THEN st
        ELSE IF cont.ok /\ st.cur.in_notes
        THEN IF cont_line # <<>> /\ ~StartsWith(cont_line, <<"_(">>)
             THEN [st EXCEPT !.cur.content = st.cur.content \o <<"\n">> \o cont_line]
             ELSE st
        ELSE IF content_match.ok
        THEN [st EXCEPT !.cur = ParseContent(st.cur, content_match.val)]
        ELSE st)))))

\* the loop over the lines; the state after each line is bound as a value
RECURSIVE ParseFrom(_, _, _)
ParseFrom(lines, i, st) ==
    IF i > Len(lines) THEN st
    ELSE CHOOSE end \in {ParseFrom(lines, i + 1, next) : next \in {ParseLine(st, lines[i])}} : TRUE

\* the entries of the text whose lines are given (split('\n') adds a last,
\* empty line, which matches nothing)
parse_kb_markdown(lines) ==
    LetIn(ParseFrom(lines \o << <<>> >>, 1,
                    [entries |-> <<>>, open |-> FALSE,
                     cur |-> NewEntryObject(<<>>, <<>>, <<>>, <<>>, <<>>, <<>>)]),
          LAMBDA st : IF st.open THEN Append(st.entries, st.cur) ELSE st.entries)

(***************************************************************************)
(* host.py: the field writers, as functions from the lines read to the     *)
(* lines written.  ok is the value returned; when it is FALSE nothing is   *)
(* written.  Indices count from 1.                                         *)
(***************************************************************************)
Failed(lines) == [ok |-> FALSE, lines |-> lines]
Written(lines) == [ok |-> TRUE, lines |-> lines]

\* the first index from `from` on whose line satisfies P, Len(lines) + 1 if none
FirstFrom(lines, from, P(_)) ==
    IF \E j \in from..Len(lines) : P(lines[j])
    THEN CHOOSE j \in from..Len(lines) :
            P(lines[j]) /\ \A k \in from..(j - 1) : ~P(lines[k])
    ELSE Len(lines) + 1

\* lines.insert(pos, ...) for each of new, in order
InsertAt(lines, pos, new) ==
    SubSeq(lines, 1, pos - 1) \o new \o SubSeq(lines, pos, Len(lines))

\* the first line that holds the timestamp between grave accents
FindEntry(lines, timestamp) ==
    FirstFrom(lines, 1, LAMBDA l : Contains(l, Tick(timestamp)))

\* the scan of add_summary_to_entry, add_classification_to_entry and
\* add_category_to_entry: the next line that starts with '- ' or is blank
EndOfEntry(lines, i) == FirstFrom(lines, i + 1, LAMBDA l : IsDashLine(l) \/ IsBlank(l))

\* ' '.join(summary.split())
CleanSummary(summary) ==
    LET spaced == [k \in 1..Len(summary) |->
                      IF summary[k] \in Whitespace THEN " " ELSE summary[k]]
    IN  Join(SelectSeqNonEmpty(SplitOn(spaced, " ")), <<" ">>)

add_summary_to_entry(lines, timestamp, summary) ==
    LET i == FindEntry(lines, timestamp)
    IN  IF i > Len(lines) THEN Failed(lines)
        ELSE Written(InsertAt(lines, EndOfEntry(lines, i),
                              <<Field(AISummaryName, CleanSummary(summary))>>))

CommaSep == <<",", " ">>

ClassLines(classification) ==
    LET entity == classification.entity
        topics == classification.topics
        people == classification.people
    IN  (IF entity # <<>>
         THEN <<Field(<<"Entity">>, entity)>>
              \o (IF entity = <<"task">>
                  THEN <<Field(<<"Status">>, <<"not-started">>)>> ELSE <<>>)
         ELSE <<>>)
        \o (IF topics # <<>> THEN <<Field(<<"Topics">>, Join(topics, CommaSep))>> ELSE <<>>)
        \o (IF people # <<>> THEN <<Field(<<"People">>, Join(people, CommaSep))>> ELSE <<>>)

\* the classification lines put right after the header line
add_classification_after_header(lines, timestamp, classification) ==
    LET i == FindEntry(lines, timestamp)
    IN  IF i > Len(lines) THEN Failed(lines)
        ELSE Written(InsertAt(lines, i + 1, ClassLines(classification)))

add_classification_to_entry(lines, timestamp, classification) ==
    LET i == FindEntry(lines, timestamp)
    IN  IF i > Len(lines) THEN Failed(lines)
        ELSE Written(InsertAt(lines, EndOfEntry(lines, i), ClassLines(classification)))

add_category_to_entry(lines, timestamp, category) ==
    LET i == FindEntry(lines, timestamp)
    IN  IF i > Len(lines) THEN Failed(lines)
        ELSE Written(InsertAt(lines, EndOfEntry(lines, i),
                              <<Field(<<"Category">>, category)>>))

\* the scan of add_relationships_to_entry and add_similar_to_entry: up to the
\* next new-format header or Entity/Topics line, the position after the last
\* line of one of the kinds in `after` and the four-space lines that follow it
InsertAfterKinds(lines, i, after) ==
    LET stop == FirstFrom(lines, i + 1,
                    LAMBDA l : IsNewHeader(l) \/ IsFieldLine(l, <<"Entity">>)
                               \/ IsFieldLine(l, <<"Topics">>))
        Hits == {j \in (i + 1)..(stop - 1) : \E name \in after : IsFieldLine(lines[j], name)}
        last == CHOOSE j \in Hits : \A k \in Hits : k <= j
    IN  IF Hits = {} THEN i + 1
        ELSE FirstFrom(lines, last + 1, LAMBDA l : ~StartsWith(l, Indent4))

\* ', '.join(f"{r['timestamp']} ({r[key]})")
RefList(refs) ==
    Join([k \in 1..Len(refs) |-> refs[k].timestamp \o <<" ", "(">> \o refs[k].label \o <<")">>],
         CommaSep)

add_relationships_to_entry(lines, timestamp, related_entries) ==
    LET i == FindEntry(lines, timestamp)
    IN  IF i > Len(lines) THEN Failed(lines)
        ELSE Written(InsertAt(lines,
                              InsertAfterKinds(lines, i, {<<"Notes">>, <<"ParentId">>}),
                              <<Field(<<"Related">>, RefList(related_entries))>>))

add_similar_to_entry(lines, timestamp, similar_entries) ==
    LET i == FindEntry(lines, timestamp)
    IN  IF i > Len(lines) THEN Failed(lines)
        ELSE Written(InsertAt(lines,
                              InsertAfterKinds(lines, i,
                                  {<<"Notes">>, <<"ParentId">>, <<"Related">>}),
                              <<Field(<<"Similar">>, RefList(similar_entries))>>))

update_entry_notes(lines, timestamp, new_notes) ==
    LET i == FindEntry(lines, timestamp)
        j == FirstFrom(lines, i + 1,
                 LAMBDA l : IsFieldLine(l, <<"Notes">>) \/ IsDashLine(l) \/ IsBlank(l))
        found == j <= Len(lines) /\ IsFieldLine(lines[j], <<"Notes">>)
        notes_end == FirstFrom(lines, j + 1, LAMBDA l : ~StartsWith(l, Indent4))
        new_note_lines == NoteLines(new_notes)
        insert_pos == FirstFrom(lines, i + 1,
                          LAMBDA l : ~(StartsWith(l, Bullet \o <<">">>)
                                       \/ StartsWith(l, Bullet \o <<"!", "[">>)
                                       \/ StartsWith(l, Bullet \o <<"[">>)))
    IN  IF i > Len(lines) THEN Failed(lines)
        ELSE IF found
        THEN Written(SubSeq(lines, 1, j - 1) \o new_note_lines
                     \o SubSeq(lines, notes_end, Len(lines)))
        ELSE IF Strip(new_notes) # <<>>
        THEN Written(InsertAt(lines, insert_pos, new_note_lines))
        ELSE Failed(lines)

(***************************************************************************)
(* kb-server.py: delete_entry and update_entry_status, loop by loop        *)
(***************************************************************************)
IsHeaderStart(line) == IsNewHeader(line) \/ IsOldHeader(line)

\* the paths one content line of the deleted entry adds to files_to_delete
PathsOfLine(line) ==
    (IF SCREENSHOT_PATTERN(line).ok THEN <<SCREENSHOT_PATTERN(line).val>> ELSE <<>>)
    \o (IF FILE_PATTERN(line).ok THEN <<FILE_PATTERN(line).val>> ELSE <<>>)

DeleteStep(st, line, timestamp) ==
    LET hdr == IsHeaderStart(line)
        hit == hdr /\ Contains(line, Tick(timestamp))
        skip == IF hdr THEN hit ELSE st.skip_until_next_entry
    IN  IF hit
        THEN [st EXCEPT !.skip_until_next_entry = TRUE, !.deleted = TRUE]
        ELSE IF skip /\ IsContent(line)
        THEN [st EXCEPT !.skip_until_next_entry = skip,
                        !.files_to_delete = st.files_to_delete \o PathsOfLine(line)]
        ELSE IF skip /\ IsBlank(line)
        THEN [st EXCEPT !.skip_until_next_entry = skip]
        ELSE [st EXCEPT !.skip_until_next_entry = skip,
                        !.new_lines = Append(st.new_lines, line)]

RECURSIVE DeleteLoop(_, _, _, _)
DeleteLoop(lines, i, st, timestamp) ==
    IF i > Len(lines) THEN st
    ELSE DeleteLoop(lines, i + 1, DeleteStep(st, lines[i], timestamp), timestamp)

\* the loop of delete_entry over the lines read: what it would write, whether
\* an entry was found, and the paths it would unlink, in order
delete_entry(lines, timestamp) ==
    DeleteLoop(lines, 1,
               [new_lines |-> <<>>, skip_until_next_entry |-> FALSE,
                deleted |-> FALSE, files_to_delete |-> <<>>],
               timestamp)

StatusLine(status) == Field(<<"Status">>, status)

StatusStep(st, line, timestamp, status) ==
    LET hdr == IsHeaderStart(line)
        \* the header branch: a target entry that ends without a Status line gets one
        flush == hdr /\ st.in_target_entry /\ ~st.status_updated
        s1 == IF flush
              THEN [st EXCEPT !.new_lines = st.new_lines \o st.entry_content_lines
                                            \o <<StatusLine(status)>>,
                              !.status_updated = TRUE,
                              !.entry_content_lines = <<>>]
              ELSE st
        s2 == IF hdr THEN [s1 EXCEPT !.in_target_entry = FALSE] ELSE s1
    IN  IF hdr /\ Contains(line, Tick(timestamp))
        THEN [s2 EXCEPT !.found_entry = TRUE, !.in_target_entry = TRUE,
                        !.new_lines = Append(s2.new_lines, line)]
        ELSE IF ~s2.in_target_entry
        THEN [s2 EXCEPT !.new_lines = Append(s2.new_lines, line)]
        ELSE IF IsContent(line)
        THEN IF StartsWith(line, Bullet \o <<"Status", ":", " ">>)
             THEN [s2 EXCEPT !.new_lines = Append(s2.new_lines, StatusLine(status)),
                             !.status_updated = TRUE]
             ELSE [s2 EXCEPT !.entry_content_lines = Append(s2.entry_content_lines, line)]
        ELSE IF IsBlank(line) \/ IsHeaderStart(line)
        THEN IF ~s2.status_updated
             THEN [s2 EXCEPT !.new_lines = s2.new_lines \o s2.entry_content_lines
                                           \o <<StatusLine(status), line>>,
                             !.status_updated = TRUE,
                             !.entry_content_lines = <<>>,
                             !.in_target_entry = FALSE]
             ELSE [s2 EXCEPT !.new_lines = Append(s2.new_lines, line),
                             !.in_target_entry = FALSE]
        ELSE [s2 EXCEPT !.entry_content_lines = Append(s2.entry_content_lines, line)]

RECURSIVE StatusLoop(_, _, _, _, _)
StatusLoop(lines, i, st, timestamp, status) ==
    IF i > Len(lines) THEN st
    ELSE StatusLoop(lines, i + 1, StatusStep(st, lines[i], timestamp, status),
                    timestamp, status)

update_entry_status(lines, timestamp, status) ==
    LET st == StatusLoop(lines, 1,
                         [new_lines |-> <<>>, found_entry |-> FALSE,
                          in_target_entry |-> FALSE, status_updated |-> FALSE,
                          entry_content_lines |-> <<>>],
                         timestamp, status)
        \* the target entry is the last of the file
        new_lines == IF st.in_target_entry /\ ~st.status_updated
                     THEN st.new_lines \o st.entry_content_lines \o <<StatusLine(status)>>
                     ELSE st.new_lines
    IN  IF st.found_entry THEN Written(new_lines) ELSE Failed(lines)

(***************************************************************************)
(* host.py: side-files and append_to_kb                                    *)
(***************************************************************************)
\* tokens outside [a-zA-Z0-9\-_\. ], which re.sub replaces by an underscore
UnsafeTokens ==
    {Backtick, "|", "[", "]", "(", ")", "*", ">", "!", ":", ",", "/", "\\", "\n", "\t",
     "http://", "https://", "file://", "chrome-extension://", "ftp://", NulByte}

RECURSIVE LStripDots(_)
LStripDots(s) == IF s # <<>> /\ Head(s) = "." THEN LStripDots(Tail(s)) ELSE s

\* the index of the last token t of s, 0 when there is none
LastIndexOf(s, t) ==
    IF \E i \in 1..Len(s) : s[i] = t
    THEN CHOOSE i \in 1..Len(s) : s[i] = t /\ \A j \in (i + 1)..Len(s) : s[j] # t
    ELSE 0

\* Path(filename).name: the last component of the path, where empty
\* components and components '.' do not count
PathName(filename) ==
    LET parts == SelectSeq(SplitOn(filename, "/"), LAMBDA part : part \notin {<<>>, <<".">>})
    IN  IF parts = <<>> THEN <<>> ELSE parts[Len(parts)]

FilenameLimit == 200

sanitize_filename(filename) ==
    LET kept == LStripDots(SelectSeq(PathName(filename),
                                     LAMBDA t : t \notin {"/", "\\", NulByte}))
        white == [k \in 1..Len(kept) |-> IF kept[k] \in UnsafeTokens THEN "_" ELSE kept[k]]
        dot == LastIndexOf(white, ".")
        cut == IF CharLen(white) > FilenameLimit
               THEN IF dot > 0
                    THEN Prefix(SubSeq(white, 1, dot - 1), FilenameLimit - 10) \o <<".">>
                         \o Prefix(DropN(white, dot), 10)
                    ELSE Prefix(white, FilenameLimit)
               ELSE white
    IN  IF filename = <<>> \/ cut = <<>> \/ cut = <<".">> THEN <<"unnamed_file">> ELSE cut

\* timestamp.replace(' ', '_').replace(':', '-') maps the timestamp words one to one
ScreenshotPath(timestamp) == <<"screenshots/", "screenshot_">> \o timestamp \o <<".png">>

FilePath(filename, timestamp) ==
    LET safe_base == sanitize_filename(filename)
        dot == LastIndexOf(safe_base, ".")
    IN  IF dot > 0
        THEN <<"files/">> \o SubSeq(safe_base, 1, dot - 1) \o <<"_">> \o timestamp
             \o <<".">> \o DropN(safe_base, dot)
        ELSE <<"files/">> \o safe_base \o <<"_">> \o timestamp

\* entry.get('type') == 'screenshot' and 'screenshot' in entry
WantsScreenshot(entry) == entry.type = <<"screenshot">> /\ "screenshot" \in entry.keys
WantsFile(entry) == "fileData" \in entry.keys

\* the same text with the new entry after the content read
AppendAtEnd(existing_content, entry, screenshot_path, file_path) ==
    existing_content \o format_markdown_entry(entry, screenshot_path, file_path)

\* the text append_to_kb writes: the new entry, then the content it read
PrependEntry(existing_content, entry, screenshot_path, file_path) ==
    format_markdown_entry(entry, screenshot_path, file_path) \o existing_content

(***************************************************************************)
(* The store, the processes that work on it, and the record of what they   *)
(* did                                                                     *)
(***************************************************************************)
VARIABLES
    kb_exists,  \* kb_file.exists()
    kb,         \* the lines of kb.md
    files,      \* the side-files that exist under the project folder
    host,       \* the native-host processes: where each is in its message loop
    server,     \* the kb-server: the request it is handling
    created,    \* history: the timestamps append_to_kb returned success for
    live,       \* history: those minus the ones delete_entry returned success for
    last,       \* history: the last operation that finished, and the file before it
    rt          \* an entry on its way through format_markdown_entry and the parser

vars == <<kb_exists, kb, files, host, server, created, live, last, rt>>

T1 == <<"T1">>
T2 == <<"T2">>

\* entry[k] = v for a key the message holds
With(entry, k, v) == (k :> v) @@ [entry EXCEPT !.keys = @ \cup {k}]

BaseEntry(type, captured, title) ==
    [keys |-> {"type", "captured", "source", "title"}, type |-> type,
     captured |-> captured, source |-> <<"browser">>, title |-> title]

\* the messages the extension sends, by kind of capture
IdeaEntry(captured) ==
    With(BaseEntry(<<"idea">>, captured, <<"Idea">>), "notes", <<"fix", " ", "login">>)
LongNoteEntry(captured) ==
    With(BaseEntry(<<"idea">>, captured, <<"Plan">>), "notes", <<"first", "\n", "second">>)
LinkEntry(captured) ==
    With(With(BaseEntry(<<"link">>, captured, <<"Page">>), "url", <<"https://", "x">>),
         "selectedText", <<"quoted">>)
ScreenshotEntry(captured) ==
    With(With(BaseEntry(<<"screenshot">>, captured, <<"Shot">>), "screenshot", <<"data">>),
         "notes", <<"seen">>)
FileEntry(captured) ==
    With(BaseEntry(<<"pdf">>, captured, <<"report", ".", "pdf">>), "fileData", <<"data">>)
\* a capture of a page that has no title
UntitledEntry(captured) ==
    With(BaseEntry(<<"idea">>, captured, <<>>), "notes", <<"untitled">>)
\* a message without its source field
BadEntry(captured) ==
    [keys |-> {"type", "captured"}, type |-> <<"idea">>, captured |-> captured]

\* a note that names another entry by its timestamp between grave accents and
\* links to that entry's screenshot
ReferringEntry(captured, other) ==
    With(BaseEntry(<<"idea">>, captured, <<"Ref">>), "notes",
         <<"see", " ">> \o Tick(other) \o <<" ", "[", "shot", "]", "(",
           "screenshots/", "screenshot_">> \o other \o <<".png", ")">>)

\* messages append_to_kb rejects: no type, no captured, a captured that is
\* not a timestamp
NoTypeEntry(captured) ==
    [keys |-> {"captured", "source"}, captured |-> captured, source |-> <<"browser">>]
NoCapturedEntry ==
    [keys |-> {"type", "source"}, type |-> <<"idea">>, source |-> <<"browser">>]
MalformedCapturedEntry == BaseEntry(<<"idea">>, <<"yesterday">>, <<"Idea">>)

NoPath == <<>>

\* the state the initial start of the programs leaves: no kb.md, no side-file
StoreInit ==
    /\ kb_exists = FALSE
    /\ kb = <<>>
    /\ files = {}
    /\ created = <<>>
    /\ live = {}

NoOp == [op |-> "none", ts |-> <<>>, arg |-> <<>>, ok |-> FALSE]

LastInit ==
    last = [n |-> 0, op |-> "none", ts |-> <<>>, arg |-> <<>>, ok |-> FALSE,
            before |-> <<>>, existed |-> FALSE, prev |-> NoOp,
            only_creates |-> TRUE, deleted_any |-> FALSE, titled |-> <<>>,
            files_before |-> {}, folder_valid |-> TRUE, save_failed |-> FALSE,
            background_task |-> FALSE, deleted_files |-> <<>>]

\* the record of an operation that has just finished
Finished(op, ts, arg, ok) ==
    [n |-> last.n + 1, op |-> op, ts |-> ts, arg |-> arg, ok |-> ok,
     before |-> kb, existed |-> kb_exists,
     prev |-> [op |-> last.op, ts |-> last.ts, arg |-> last.arg, ok |-> last.ok],
     only_creates |-> last.only_creates /\ op = "append_to_kb",
     deleted_any |-> last.deleted_any \/ op = "delete_entry",
     titled |-> IF op = "append_to_kb" /\ ok /\ Get(arg, "title", <<"Untitled">>) # <<>>
                THEN Append(last.titled, ts) ELSE last.titled,
     files_before |-> files, folder_valid |-> TRUE, save_failed |-> FALSE,
     background_task |-> FALSE, deleted_files |-> <<>>]

Range(seq) == {seq[k] : k \in 1..Len(seq)}

NHosts == 1
Hosts == 1..NHosts

\* a native host waiting in read_message, the kb-server waiting for a request
NoClassification ==
    [entity |-> <<>>, topics |-> <<>>, people |-> <<>>, category |-> <<>>,
     corrected_notes |-> <<>>]
\* what resolve_with_ai returns when it has nothing to say
NoResolution == [timestamp |-> <<>>, confidence |-> "none"]
HostIdle ==
    [pc |-> "idle", received |-> 0, entry |-> BadEntry(<<>>), api_key |-> FALSE,
     screenshot_path |-> NoPath, file_path |-> NoPath, lines |-> <<>>,
     op |-> "none", arg |-> <<>>, summary |-> <<>>, classification |-> NoClassification,
     success |-> FALSE, responded |-> FALSE, ai_summary |-> <<>>,
     resolution |-> NoResolution, loaded |-> FALSE, all_entries |-> <<>>,
     similarity_candidates |-> <<>>, called |-> {}]
ServerIdle ==
    [pc |-> "idle", requests |-> 0, timestamp |-> <<>>, status |-> <<>>, lines |-> <<>>,
     files_to_delete |-> <<>>]
RtIdle ==
    [pc |-> "idle", entry |-> BadEntry(<<>>), screenshot_path |-> NoPath,
     file_path |-> NoPath, text |-> <<>>, entries |-> <<>>]

ProcessesIdle ==
    /\ host = [h \in Hosts |-> HostIdle]
    /\ server = ServerIdle

(***************************************************************************)
(* One operation at a time: every operation runs from its read of kb.md to *)
(* its return before the next one starts                                   *)
(***************************************************************************)
MaxOps == 3

SeqTimestamps == {T1, T2}
SeqEntries ==
    UNION {{IdeaEntry(ts), LongNoteEntry(ts), LinkEntry(ts), ScreenshotEntry(ts),
            FileEntry(ts)} : ts \in SeqTimestamps}
        \cup {UntitledEntry(T2), ReferringEntry(T2, T1), BadEntry(T1), NoTypeEntry(T1),
              NoCapturedEntry, MalformedCapturedEntry}

Summaries == {<<"sum">>}
NewNotes == {<<"fixed">>, <<"one", "\n", "two">>}
Classifications ==
    {[entity |-> <<"task">>, topics |-> << <<"auth">> >>, people |-> <<>>],
     [entity |-> <<"knowledge">>, topics |-> <<>>, people |-> << <<"Ann">> >>]}
Categories == {<<"work">>}
Statuses == {<<"done">>}
RefsTo(ts, label) == <<[timestamp |-> ts, label |-> label]>>

SeqInit == StoreInit /\ LastInit /\ ProcessesIdle /\ rt = RtIdle

\* append_to_kb going on to the write although the entry is not valid
SeqAppendUnvalidated(entry, folder_valid, api_key, screenshot_saved, file_saved) ==
    LET valid == \A field \in {"type", "captured", "source"} : field \in entry.keys
        shot == valid /\ WantsScreenshot(entry)
        screenshot_path == IF shot /\ screenshot_saved
                           THEN ScreenshotPath(entry.captured) ELSE NoPath
        file == valid /\ ~(shot /\ ~screenshot_saved) /\ WantsFile(entry)
        file_path == IF file /\ file_saved
                     THEN FilePath(entry.title, entry.captured) ELSE NoPath
        success == valid /\ ~(shot /\ ~screenshot_saved) /\ ~(file /\ ~file_saved)
        existing_content == IF kb_exists THEN kb ELSE <<>>
    IN  /\ last.n < MaxOps
        /\ files' = files \cup ({screenshot_path, file_path} \ {NoPath})
        /\ kb' = IF success
                 THEN PrependEntry(existing_content, entry, screenshot_path, file_path)
                 ELSE kb
        /\ kb_exists' = (kb_exists \/ success)
        /\ created' = IF success THEN Append(created, entry.captured) ELSE created
        /\ live' = IF success THEN live \cup {entry.captured} ELSE live
        /\ last' = [Finished("append_to_kb", Get(entry, "captured", <<>>), entry, success)
                        EXCEPT !.folder_valid = folder_valid,
                               !.save_failed = \/ shot /\ ~screenshot_saved
                                               \/ file /\ ~file_saved,
                               !.background_task = success /\ api_key]
        /\ UNCHANGED <<host, server, rt>>

\* append_to_kb from its validation to its return; the flags say whether the
\* project folder is valid, whether a key is configured and whether
\* save_screenshot and save_file can write their file
SeqAppend(entry, folder_valid, api_key, screenshot_saved, file_saved) ==
    LET valid == folder_valid /\ validate_entry(entry)
        shot == valid /\ WantsScreenshot(entry)
        screenshot_path == IF shot /\ screenshot_saved
                           THEN ScreenshotPath(entry.captured) ELSE NoPath
        file == valid /\ ~(shot /\ ~screenshot_saved) /\ WantsFile(entry)
        file_path == IF file /\ file_saved
                     THEN FilePath(entry.title, entry.captured) ELSE NoPath
        success == valid /\ ~(shot /\ ~screenshot_saved) /\ ~(file /\ ~file_saved)
        existing_content == IF kb_exists THEN kb ELSE <<>>
    IN  /\ last.n < MaxOps
        /\ files' = files \cup ({screenshot_path, file_path} \ {NoPath})
        /\ kb' = IF success
                 THEN PrependEntry(existing_content, entry, screenshot_path, file_path)
                 ELSE kb
        /\ kb_exists' = (kb_exists \/ success)
        /\ created' = IF success THEN Append(created, entry.captured) ELSE created
        /\ live' = IF success THEN live \cup {entry.captured} ELSE live
        /\ last' = [Finished("append_to_kb", Get(entry, "captured", <<>>), entry, success)
                        EXCEPT !.folder_valid = folder_valid,
                               !.save_failed = \/ shot /\ ~screenshot_saved
                                               \/ file /\ ~file_saved,
                               !.background_task = success /\ api_key]
        /\ UNCHANGED <<host, server, rt>>

\* a field writer from its read to its return: res is what it computes from
\* the lines it reads
SeqWrite(op, timestamp, arg, res) ==
    /\ last.n < MaxOps
    /\ kb' = IF kb_exists /\ res.ok THEN res.lines ELSE kb
    /\ last' = Finished(op, timestamp, arg, kb_exists /\ res.ok)
    /\ UNCHANGED <<kb_exists, files, created, live, host, server, rt>>

SeqAddSummary(ts, summary) ==
    SeqWrite("add_summary_to_entry", ts, summary, add_summary_to_entry(kb, ts, summary))
SeqUpdateNotes(ts, notes) ==
    SeqWrite("update_entry_notes", ts, notes, update_entry_notes(kb, ts, notes))
SeqAddClassification(ts, c) ==
    SeqWrite("add_classification_to_entry", ts, c, add_classification_to_entry(kb, ts, c))
SeqAddCategory(ts, category) ==
    SeqWrite("add_category_to_entry", ts, category, add_category_to_entry(kb, ts, category))
SeqAddRelationships(ts, refs) ==
    SeqWrite("add_relationships_to_entry", ts, refs, add_relationships_to_entry(kb, ts, refs))
SeqAddSimilar(ts, refs) ==
    SeqWrite("add_similar_to_entry", ts, refs, add_similar_to_entry(kb, ts, refs))
SeqUpdateStatus(ts, status) ==
    SeqWrite("update_entry_status", ts, status, update_entry_status(kb, ts, status))

\* delete_entry from its read to its return
SeqDelete(ts) ==
    LET res == delete_entry(kb, ts)
        ok == kb_exists /\ res.deleted
    IN  /\ last.n < MaxOps
        /\ kb' = IF ok THEN res.new_lines ELSE kb
        /\ files' = IF ok THEN files \ Range(res.files_to_delete) ELSE files
        /\ live' = IF ok THEN live \ {ts} ELSE live
        /\ last' = [Finished("delete_entry", ts, <<>>, ok)
                        EXCEPT !.deleted_files = IF ok THEN res.files_to_delete ELSE <<>>]
        /\ UNCHANGED <<kb_exists, created, host, server, rt>>

SeqNext ==
    \/ \E e \in SeqEntries, folder_valid, api_key, s, f \in BOOLEAN :
          SeqAppend(e, folder_valid, api_key, s, f)
    \/ \E ts \in SeqTimestamps, s \in Summaries : SeqAddSummary(ts, s)
    \/ \E ts \in SeqTimestamps, n \in NewNotes : SeqUpdateNotes(ts, n)
    \/ \E ts \in SeqTimestamps, c \in Classifications : SeqAddClassification(ts, c)
    \/ \E ts \in SeqTimestamps, c \in Categories : SeqAddCategory(ts, c)
    \/ \E ts, to \in SeqTimestamps : SeqAddRelationships(ts, RefsTo(to, <<"mentions">>))
    \/ \E ts, to \in SeqTimestamps : SeqAddSimilar(ts, RefsTo(to, <<"same", " ", "topic">>))
    \/ \E ts \in SeqTimestamps, st \in Statuses : SeqUpdateStatus(ts, st)
    \/ \E ts \in SeqTimestamps : SeqDelete(ts)

SeqSpec == SeqInit /\ [][SeqNext]_vars

(***************************************************************************)
(* Properties of single operations                                         *)
(***************************************************************************)
\* what the viewer shows of an entry: the parser's own flag left out
Shown(e) == [k \in DOMAIN e \ {"in_notes"} |-> e[k]]
Entries(lines) ==
    LetIn(parse_kb_markdown(lines), LAMBDA parsed :
        [k \in 1..Len(parsed) |-> Shown(parsed[k])])
Timestamps(lines) ==
    LetIn(parse_kb_markdown(lines), LAMBDA parsed :
        [k \in 1..Len(parsed) |-> parsed[k].timestamp])

Reverse(seq) == [k \in 1..Len(seq) |-> seq[Len(seq) + 1 - k]]

\* the header lines of the entries that carry a timestamp
HeadersOf(lines, ts) ==
    {i \in 1..Len(lines) :
        NEW_ENTRY_PATTERN(lines[i]).ok /\ NEW_ENTRY_PATTERN(lines[i]).timestamp = ts}
AllHeaders(lines) == {i \in 1..Len(lines) : IsHeaderStart(lines[i])}
\* the last line of the entry whose header is line i
LastLineOf(lines, i) ==
    FirstFrom(lines, i + 1, LAMBDA l : IsHeaderStart(l) \/ IsBlank(l)) - 1

\* C3: update_entry_status on an entry that exists changes only that entry's
\* Status line: it replaces the Status line if there is one, inserts one inside
\* the entry otherwise, and leaves every other line of kb.md as it was.
C3_StatusUpdateTouchesOnlyStatusLine ==
    (/\ last.op = "update_entry_status"
     /\ last.ok
     /\ Cardinality(HeadersOf(last.before, last.ts)) = 1)
    => LET before == last.before
           i == CHOOSE h \in HeadersOf(before, last.ts) : TRUE
           end == LastLineOf(before, i)
           Status == {j \in (i + 1)..end : IsFieldLine(before[j], <<"Status">>)}
       IN  IF Status # {}
           THEN \E j \in Status : kb = [before EXCEPT ![j] = StatusLine(last.arg)]
           ELSE \E p \in (i + 1)..(end + 1) :
                    kb = InsertAt(before, p, <<StatusLine(last.arg)>>)

\* C4: delete_entry(T), when exactly one entry carries T, leaves exactly the
\* previous entries without T, each with unchanged fields: it removes the
\* header and every content line of T, continuation lines included, and no
\* line of another entry.
C4_DeleteRemovesExactlyTheEntry ==
    (/\ last.op = "delete_entry"
     /\ last.ok
     /\ Cardinality({k \in 1..Len(Entries(last.before)) :
                        Entries(last.before)[k].timestamp = last.ts}) = 1)
    => Entries(kb) = SelectSeq(Entries(last.before), LAMBDA e : e.timestamp # last.ts)

FieldWriters ==
    {"add_summary_to_entry", "add_classification_to_entry", "add_category_to_entry",
     "add_relationships_to_entry", "add_similar_to_entry", "update_entry_notes",
     "update_entry_status"}

\* C5: every field write is idempotent: the same write (same timestamp, same
\* field kind, same value) applied twice in a row leaves kb.md after the second
\* application identical to what it was after the first.
C5_FieldWriteIdempotent ==
    (/\ last.op \in FieldWriters
     /\ last.prev.op = last.op
     /\ last.prev.ts = last.ts
     /\ last.prev.arg = last.arg)
    => kb = last.before

\* the place of a content line in the canonical order of an entry
Rank(line) ==
    LET is(name) == IsFieldLine(line, name)
    IN  IF StartsWith(line, Bullet \o <<">">>) THEN 1
        ELSE IF StartsWith(line, Bullet \o <<"!", "[">>) \/ StartsWith(line, Bullet \o <<"[">>)
        THEN 2
        ELSE IF is(<<"Notes">>) \/ StartsWith(line, Indent4) THEN 3
        ELSE IF is(<<"ParentId">>) \/ is(<<"Related">>) \/ is(<<"Similar">>) THEN 4
        ELSE IF is(<<"Description">>) \/ is(<<"Image">>) \/ is(<<"Author">>)
                \/ is(<<"Published">>) \/ is(<<"ReadTime">>) THEN 5
        ELSE IF is(<<"Entity">>) \/ is(<<"Status">>) \/ is(<<"Topics">>) \/ is(<<"People">>)
        THEN 6
        ELSE IF is(<<"Category">>) THEN 7
        ELSE 8

\* C6: after any sequence of field writes on entries written by
\* format_markdown_entry, the content lines of every entry are in the canonical
\* order: blockquotes, screenshot/attachment, Notes, ParentId/Related/Similar,
\* page metadata, Entity/Status/Topics/People, Category, AI Summary.
C6_CanonicalFieldOrder ==
    ~last.deleted_any
    => \A i \in AllHeaders(kb) :
          \A j, k \in (i + 1)..LastLineOf(kb, i) :
             j < k => Rank(kb[j]) <= Rank(kb[k])

\* C8: in every reachable state no two entries of kb.md carry the same
\* timestamp, also after two append_to_kb calls with the same captured value.
C8_TimestampsUnique ==
    \A j, k \in 1..Len(Timestamps(kb)) :
        Timestamps(kb)[j] = Timestamps(kb)[k] => j = k

\* the text append_to_kb serializes for an entry it accepts
Serialized(entry) ==
    format_markdown_entry(entry,
        IF WantsScreenshot(entry) THEN ScreenshotPath(entry.captured) ELSE NoPath,
        IF WantsFile(entry) THEN FilePath(entry.title, entry.captured) ELSE NoPath)

Absent == [has |-> FALSE, v |-> <<>>]
Given(v) == [has |-> TRUE, v |-> v]
WithOpt(entry, k, opt) == IF opt.has THEN With(entry, k, opt.v) ELSE entry

TitleOptions == {Absent, Given(<<>>), Given(<<"My", " ", "Title">>)}
UrlOptions == {Absent, Given(<<"https://", "x">>), Given(<<"ftp://", "x">>)}
TabGroupOptions ==
    {Absent,
     Given([keys |-> {"groupName", "groupColor"}, groupName |-> <<"G">>,
            groupColor |-> <<"blue">>])}
SelectedTextOptions == {Absent, Given(<<"quoted">>), Given(<<"q1", "\n", "q2">>)}
NotesOptions == {Absent, Given(<<"fix", " ", "login">>), Given(<<"first", "\n", "second">>)}
PageMetadataOptions ==
    {Absent,
     Given([keys |-> {"description", "author", "readingTime"},
            description |-> <<"about", " ", "x">>, author |-> <<"Ann">>,
            readingTime |-> <<"5">>]),
     Given([keys |-> {"ogImage", "publishedDate", "readingTime"},
            ogImage |-> <<"https://", "img">>, publishedDate |-> <<"D1">>,
            readingTime |-> <<"0">>])}
SideFileOptions == {"none", "screenshot", "file"}

RTEntries ==
    {WithOpt(WithOpt(WithOpt(WithOpt(WithOpt(WithOpt(WithOpt(WithOpt(
        [keys |-> {"type", "captured", "source"},
         type |-> IF side = "screenshot" THEN <<"screenshot">> ELSE <<"link">>,
         captured |-> T1, source |-> <<"browser">>],
        "title", title), "url", url), "tabGroup", group), "selectedText", sel),
        "notes", notes), "pageMetadata", meta),
        "screenshot", IF side = "screenshot" THEN Given(<<"data">>) ELSE Absent),
        "fileData", IF side = "file" /\ title.has THEN Given(<<"data">>) ELSE Absent) :
     title \in TitleOptions, url \in UrlOptions, group \in TabGroupOptions,
     sel \in SelectedTextOptions, notes \in NotesOptions, meta \in PageMetadataOptions,
     side \in SideFileOptions}
    \cup {BadEntry(T1)}

RTInit ==
    /\ StoreInit /\ LastInit /\ ProcessesIdle
    /\ rt \in {[RtIdle EXCEPT !.pc = "entry", !.entry = e] : e \in RTEntries}

\* validate_entry accepts the entry; format_markdown_entry with the paths
\* append_to_kb passes for it
RTFormat ==
    LET e == rt.entry
        screenshot_path == IF WantsScreenshot(e) THEN ScreenshotPath(e.captured) ELSE NoPath
        file_path == IF WantsFile(e) THEN FilePath(e.title, e.captured) ELSE NoPath
    IN  /\ rt.pc = "entry"
        /\ validate_entry(e)
        /\ rt' = [rt EXCEPT !.pc = "text", !.screenshot_path = screenshot_path,
                            !.file_path = file_path,
                            !.text = format_markdown_entry(e, screenshot_path, file_path)]
        /\ UNCHANGED <<kb_exists, kb, files, host, server, created, live, last>>

RTParse ==
    /\ rt.pc = "text"
    /\ rt' = [rt EXCEPT !.pc = "parsed", !.entries = Entries(rt.text)]
    /\ UNCHANGED <<kb_exists, kb, files, host, server, created, live, last>>

RTNext == RTFormat \/ RTParse

RTSpec == RTInit /\ [][RTNext]_vars

\* the entry populates the field
Populated(d, k) == k \in d.keys /\ d[k] # <<>>

\* C7: for every entry e accepted by validate_entry, parsing the text of
\* format_markdown_entry(e) yields exactly one entry whose type, source,
\* timestamp, title, url, tab group, selected text, notes, side-file paths and
\* page-metadata fields equal those of e wherever e populates them.
C7_RoundTrip ==
    rt.pc = "parsed"
    => /\ Len(rt.entries) = 1
       /\ LET e == rt.entry
              p == rt.entries[1]
              meta == Get(e, "pageMetadata", [keys |-> {}])
              same(d, k, v) == Populated(d, k) => v = d[k]
          IN  /\ p.type = e.type /\ p.source = e.source /\ p.timestamp = e.captured
              /\ same(e, "title", p.title)
              /\ same(e, "url", p.url)
              /\ Populated(e, "tabGroup") => same(e.tabGroup, "groupName", p.group)
              /\ same(e, "selectedText", p.selectedText)
              /\ same(e, "notes", p.content)
              /\ rt.screenshot_path # NoPath => p.screenshot = rt.screenshot_path
              /\ rt.file_path # NoPath => p.file = rt.file_path
              /\ same(meta, "description", p.description)
              /\ same(meta, "ogImage", p.ogImage)
              /\ same(meta, "author", p.author)
              /\ same(meta, "publishedDate", p.publishedDate)
              /\ same(meta, "readingTime", p.readingTime)

(***************************************************************************)
(* The programs as they run: native-host processes and the kb-server, each *)
(* file read, file write, side-file write and unlink a step of its own     *)
(***************************************************************************)
MaxMessages == 2    \* append messages one native host receives
MaxRequests == 1    \* DELETE and PATCH requests the kb-server receives

\* the messages a host receives; the second names a related entry itself
HostEntries ==
    {ScreenshotEntry(T1),
     With(With(FileEntry(T2), "notes", <<"see", " ", "login", " ", "bug", "\n", "second">>),
          "related", T1 \o <<" ", "(", "follows", ")">>)}

\* the timestamps a capability can answer with, and those a request can name
AnswerTimestamps == {T1}
RequestTimestamps == {T1, T2}

\* the JSON value null where the code expects a string
JsonNull == <<"null">>

(***************************************************************************)
(* host.py: the entries the resolvers work on, and their candidate search  *)
(***************************************************************************)
\* str.lower() on the words of the model that have capitals
LowerOf ==
    [t \in {"Idea", "Plan", "Page", "Shot", "Ref", "Login", "Bug", "Rust", "Ann", "Untitled"} |->
        CASE t = "Idea" -> "idea" [] t = "Plan" -> "plan" [] t = "Page" -> "page"
          [] t = "Shot" -> "shot" [] t = "Ref" -> "ref" [] t = "Login" -> "login"
          [] t = "Bug" -> "bug" [] t = "Rust" -> "rust" [] t = "Ann" -> "ann"
          [] t = "Untitled" -> "untitled"]
Lower(s) == [i \in 1..Len(s) |-> IF s[i] \in DOMAIN LowerOf THEN LowerOf[s[i]] ELSE s[i]]

\* set(s.split()): the maximal runs of tokens that are not white space
RECURSIVE WordsOf(_)
WordsOf(s) ==
    LetIn(LStrip(s), LAMBDA t :
        IF t = <<>> THEN {}
        ELSE LetIn(IF \E i \in 1..Len(t) : t[i] \in Whitespace
                   THEN CHOOSE i \in 1..Len(t) :
                            t[i] \in Whitespace /\ \A j \in 1..(i - 1) : t[j] \notin Whitespace
                   ELSE Len(t) + 1, LAMBDA i :
                 {SubSeq(t, 1, i - 1)} \cup WordsOf(DropN(t, i - 1))))

\* s.strip(GRAVE)
RECURSIVE StripTicks(_)
StripTicks(s) ==
    IF s # <<>> /\ Head(s) = Backtick THEN StripTicks(Tail(s))
    ELSE IF s # <<>> /\ s[Len(s)] = Backtick THEN StripTicks(SubSeq(s, 1, Len(s) - 1))
    ELSE s

\* the entry load_all_entries opens at a header line
LoadedEntry(timestamp, title) ==
    [timestamp |-> timestamp, title |-> title, entity |-> <<>>, topics |-> <<>>,
     people |-> <<>>, content |-> <<>>, aiSummary |-> <<>>]

\* the title part of a header: the text of a link, or the part as it is
LoadedTitle(title_part) ==
    IF title_part # <<>> /\ Head(title_part) = "["
    THEN Tail(SplitOn(title_part, "]")[1])
    ELSE title_part

\* entries.append(current_entry) done n times with the same object
Appended(entries, current, n) == entries \o [k \in 1..n |-> current]

\* one line of the loop of load_all_entries; st.open says that current_entry
\* is set, st.appended how often the object it names is in the list already:
\* a header with fewer than three parts appends current_entry and keeps it
LoadLine(st, line) ==
    IF IsNewHeader(line) /\ (\E i \in 1..Len(line) : line[i] = "|")
    THEN LetIn(SplitOn(line, "|"), LAMBDA parts :
           IF Len(parts) >= 3
           THEN [entries |-> IF st.open
                             THEN Appended(st.entries, st.current, st.appended + 1)
                             ELSE st.entries,
                 open |-> TRUE,
                 appended |-> 0,
                 current |-> LoadedEntry(StripTicks(Strip(parts[3])),
                                         LoadedTitle(IF Len(parts) > 3
                                                     THEN Strip(parts[4]) ELSE <<>>))]
           ELSE [st EXCEPT !.appended = IF st.open THEN @ + 1 ELSE @])
    ELSE IF st.open /\ IsContent(line)
    THEN LetIn(DropN(line, Len(Bullet)), LAMBDA content_line :
           IF StartsWith(content_line, <<"Notes", ":", " ">>)
           THEN [st EXCEPT !.current.content = DropN(content_line, 3)]
           ELSE IF StartsWith(content_line, <<"Entity", ":", " ">>)
           THEN [st EXCEPT !.current.entity = DropN(content_line, 3)]
           ELSE IF StartsWith(content_line, <<"Topics", ":", " ">>)
           THEN [st EXCEPT !.current.topics = SplitList(DropN(content_line, 3))]
           ELSE IF StartsWith(content_line, <<"People", ":", " ">>)
           THEN [st EXCEPT !.current.people = SplitList(DropN(content_line, 3))]
           ELSE IF StartsWith(content_line, AISummaryName \o <<":", " ">>)
           THEN [st EXCEPT !.current.aiSummary = DropN(content_line, 5)]
           ELSE st)
    ELSE st

RECURSIVE LoadFrom(_, _, _)
LoadFrom(st, lines, i) ==
    IF i > Len(lines) THEN st
    ELSE CHOOSE end \in {LoadFrom(next, lines, i + 1) : next \in {LoadLine(st, lines[i])}} : TRUE

\* load_all_entries on the lines of kb.md
load_all_entries(lines) ==
    LetIn(LoadFrom([entries |-> <<>>, open |-> FALSE, appended |-> 0,
                    current |-> LoadedEntry(<<>>, <<>>)],
                   lines, 1), LAMBDA st :
        IF st.open THEN Appended(st.entries, st.current, st.appended + 1) ELSE st.entries)

\* the times the timestamp words stand for, in seconds: T1 is 2024-01-01
\* 00:00:01, T2 one day later, T3 forty-five days after T1
SecondsOf == [t \in TimestampWords |->
                 CASE t = "T1" -> 1 [] t = "T2" -> 86401 [] t = "T3" -> 3888001]

\* datetime.strptime(timestamp, '%Y-%m-%d %H:%M:%S') succeeds
Parses(timestamp) == Len(timestamp) = 1 /\ timestamp[1] \in TimestampWords

\* (current_dt - entry_dt).days
DaysAgo(current_dt, timestamp) == (current_dt - SecondsOf[timestamp[1]]) \div 86400

\* candidates.sort(key=score, reverse=True): by score, the highest first, equal
\* scores in the order met; then the first max_candidates entries
TopCandidates(scored, max_candidates) ==
    LET n == Len(scored)
        before(i) == {j \in 1..n : \/ scored[j].score > scored[i].score
                                   \/ scored[j].score = scored[i].score /\ j < i}
        sorted == [k \in 1..n |->
                      scored[CHOOSE i \in 1..n : Cardinality(before(i)) = k - 1].entry]
    IN  SubSeq(sorted, 1, IF n < max_candidates THEN n ELSE max_candidates)

\* the entries of a list with a score above 0, each with its score
RECURSIVE Scored(_, _, _)
Scored(all_entries, Skip, score) ==
    IF all_entries = <<>> THEN <<>>
    ELSE (IF ~Skip[Head(all_entries)] /\ score[Head(all_entries)] > 0
          THEN <<[entry |-> Head(all_entries), score |-> score[Head(all_entries)]]>>
          ELSE <<>>)
         \o Scored(Tail(all_entries), Skip, score)

\* the score fuzzy_search_candidates gives an entry for a target description
FuzzyScore(entry, target_lower) ==
    LET target_words == WordsOf(target_lower)
        title_lower == Lower(entry.title)
        notes_lower == Lower(entry.content)
        topic_hits == {k \in 1..Len(entry.topics) :
                          \/ Contains(target_lower, Lower(entry.topics[k]))
                          \/ Contains(Lower(entry.topics[k]), target_lower)}
    IN  (IF Contains(title_lower, target_lower) THEN 50
         ELSE Cardinality(target_words \cap WordsOf(title_lower)) * 15)
        + Cardinality(topic_hits) * 25
        + (IF Contains(notes_lower, target_lower) THEN 20
           ELSE Cardinality(target_words \cap WordsOf(notes_lower)) * 5)

\* fuzzy_search_candidates without its two filters
FuzzySkippedSelfOnly(entry, target_type, temporal_hint, current_timestamp, current_dt) ==
    entry.timestamp = current_timestamp

\* the entries fuzzy_search_candidates drops before it scores them
FuzzySkipped(entry, target_type, temporal_hint, current_timestamp, current_dt) ==
    \/ entry.timestamp = current_timestamp
    \/ target_type # <<>> /\ target_type # <<"any">> /\ entry.entity # target_type
    \/ /\ temporal_hint # <<>> /\ temporal_hint # <<"none">>
       /\ Parses(entry.timestamp)
       /\ LetIn(DaysAgo(current_dt, entry.timestamp), LAMBDA days_ago :
             \/ temporal_hint = <<"yesterday">> /\ days_ago # 1
             \/ temporal_hint = <<"recent">> /\ days_ago > 7
             \/ temporal_hint = <<"last_week">> /\ days_ago > 14
             \/ temporal_hint = <<"last_month">> /\ days_ago > 45)

\* fuzzy_search_candidates; now is what datetime.now() returns
fuzzy_search_candidates(all_entries, target_description, target_type, temporal_hint, current_timestamp, now) ==
    LET current_dt == IF Parses(current_timestamp)
                      THEN SecondsOf[current_timestamp[1]] ELSE now
        E == Range(all_entries)
    IN  TopCandidates(
            Scored(all_entries,
                   [e \in E |-> FuzzySkipped(e, target_type, temporal_hint,
                                             current_timestamp, current_dt)],
                   [e \in E |-> FuzzyScore(e, Lower(target_description))]),
            50)

\* the score with the topics counted like the entity kind
SimilarityScoreLowTopics(entry, current_entry, current_dt) ==
    LET current_topics == Range(Get(current_entry, "topics", <<>>))
        current_entity == Get(current_entry, "entity", <<>>)
        current_people == Range(Get(current_entry, "people", <<>>))
    IN  Cardinality(current_topics \cap Range(entry.topics)) * 15
        + (IF entry.entity = current_entity /\ current_entity # <<>> THEN 15 ELSE 0)
        + Cardinality(current_people \cap Range(entry.people)) * 25
        + (IF ~Parses(entry.timestamp) THEN 0
           ELSE IF DaysAgo(current_dt, entry.timestamp) <= 7 THEN 20
           ELSE IF DaysAgo(current_dt, entry.timestamp) <= 30 THEN 10
           ELSE 0)

\* the score get_similarity_candidates gives an entry
SimilarityScore(entry, current_entry, current_dt) ==
    LET current_topics == Range(Get(current_entry, "topics", <<>>))
        current_entity == Get(current_entry, "entity", <<>>)
        current_people == Range(Get(current_entry, "people", <<>>))
    IN  Cardinality(current_topics \cap Range(entry.topics)) * 30
        + (IF entry.entity = current_entity /\ current_entity # <<>> THEN 15 ELSE 0)
        + Cardinality(current_people \cap Range(entry.people)) * 25
        + (IF ~Parses(entry.timestamp) THEN 0
           ELSE IF DaysAgo(current_dt, entry.timestamp) <= 7 THEN 20
           ELSE IF DaysAgo(current_dt, entry.timestamp) <= 30 THEN 10
           ELSE 0)

\* get_similarity_candidates; now is what datetime.now() returns
get_similarity_candidates(all_entries, current_entry, now) ==
    LET current_timestamp == Get(current_entry, "timestamp", <<>>)
        current_dt == IF Parses(current_timestamp)
                      THEN SecondsOf[current_timestamp[1]] ELSE now
        E == Range(all_entries)
    IN  TopCandidates(
            Scored(all_entries,
                   [e \in E |-> e.timestamp = current_timestamp],
                   [e \in E |-> SimilarityScore(e, current_entry, current_dt)]),
            100)

\* what the resolution capability can answer
Resolutions ==
    {[timestamp |-> T1, confidence |-> "high"], [timestamp |-> T1, confidence |-> "medium"],
     [timestamp |-> T1, confidence |-> "low"], [timestamp |-> <<>>, confidence |-> "high"]}

\* what the classification capability can answer: classify_entry returns the
\* parsed JSON object as it is
ClassifyResults ==
    {[entity |-> <<"task">>, topics |-> << <<"auth">> >>, people |-> <<>>,
      category |-> <<"work">>, corrected_notes |-> <<"see", " ", "the", " ", "login", " ", "bug">>],
     [entity |-> <<"task">>, topics |-> << <<"auth">> >>, people |-> <<>>,
      category |-> <<>>, corrected_notes |-> JsonNull]}

\* the field writer a host is in, applied to the lines it read
Apply(op, lines, timestamp, arg) ==
    CASE op = "add_summary_to_entry" -> add_summary_to_entry(lines, timestamp, arg)
      [] op = "update_entry_notes" -> update_entry_notes(lines, timestamp, arg)
      [] op = "add_classification_to_entry" -> add_classification_to_entry(lines, timestamp, arg)
      [] op = "add_category_to_entry" -> add_category_to_entry(lines, timestamp, arg)
      [] op = "add_relationships_to_entry" -> add_relationships_to_entry(lines, timestamp, arg)
      [] op = "add_similar_to_entry" -> add_similar_to_entry(lines, timestamp, arg)

\* a host that calls a field writer next
Calling(h, op, arg) == [h EXCEPT !.pc = "field_read", !.op = op, !.arg = arg, !.lines = <<>>]
\* a host at a stage of background_process_entry, or back in the message loop
AtStage(h, pc) ==
    [h EXCEPT !.pc = pc, !.op = "none", !.arg = <<>>, !.lines = <<>>,
              !.resolution = NoResolution, !.similarity_candidates = <<>>,
              !.loaded = IF pc = "idle" THEN FALSE ELSE @,
              !.all_entries = IF pc = "idle" THEN <<>> ELSE @]

\* background_process_entry with STEP 2 left out after the summary is written
AfterWriterSkipsClassify(h) ==
    CASE h.op = "add_summary_to_entry" -> AtStage(h, "relationships")
      [] h.op = "update_entry_notes" ->
            Calling(h, "add_classification_to_entry", h.classification)
      [] h.op = "add_classification_to_entry" ->
            IF h.classification.category # <<>>
            THEN Calling(h, "add_category_to_entry", h.classification.category)
            ELSE AtStage(h, "relationships")
      [] h.op = "add_category_to_entry" -> AtStage(h, "relationships")
      [] h.op = "add_relationships_to_entry" -> AtStage(h, "similarity")
      [] h.op = "add_similar_to_entry" -> AtStage(h, "idle")

\* where background_process_entry goes on when a field writer has returned
AfterWriter(h) ==
    CASE h.op = "add_summary_to_entry" -> AtStage(h, "classify")
      [] h.op = "update_entry_notes" ->
            Calling(h, "add_classification_to_entry", h.classification)
      [] h.op = "add_classification_to_entry" ->
            IF h.classification.category # <<>>
            THEN Calling(h, "add_category_to_entry", h.classification.category)
            ELSE AtStage(h, "relationships")
      [] h.op = "add_category_to_entry" -> AtStage(h, "relationships")
      [] h.op = "add_relationships_to_entry" -> AtStage(h, "similarity")
      [] h.op = "add_similar_to_entry" -> AtStage(h, "idle")

\* main running background_process_entry on the result before it is sent
ReturnedIntoPipeline(h, success) ==
    AtStage([h EXCEPT !.success = success],
            IF success /\ h.api_key THEN "summarize" ELSE "send_message")

\* append_to_kb has returned its result to main, which sends it next
Returned(h, success) == AtStage([h EXCEPT !.success = success], "send_message")

\* main after send_message, where the first call of background_process_entry
\* to a capability neither returns nor times out
AfterResponseBlocked(h) ==
    AtStage([h EXCEPT !.responded = TRUE],
            IF h.success /\ h.api_key THEN "generate_ai_summary" ELSE "idle")

\* main after send_message: background_process_entry if append_to_kb handed
\* over a background task, else the next message
AfterResponse(h) ==
    AtStage([h EXCEPT !.responded = TRUE],
            IF h.success /\ h.api_key THEN "summarize" ELSE "idle")

Init == StoreInit /\ LastInit /\ ProcessesIdle /\ rt = RtIdle

\* main reads an append message; append_to_kb validates the entry
Receive(h, entry, api_key) ==
    LET me == host[h]
        started == [me EXCEPT !.received = @ + 1, !.entry = entry, !.api_key = api_key,
                              !.screenshot_path = NoPath, !.file_path = NoPath,
                              !.summary = <<>>, !.classification = NoClassification,
                              !.success = FALSE, !.responded = FALSE,
                              !.ai_summary = <<>>, !.called = {}]
    IN  /\ me.pc = "idle"
        /\ me.received < MaxMessages
        /\ host' = [host EXCEPT ![h] =
                       IF ~validate_entry(entry) THEN Returned(started, FALSE)
                       ELSE IF WantsScreenshot(entry) THEN AtStage(started, "save_screenshot")
                       ELSE IF WantsFile(entry) THEN AtStage(started, "save_file")
                       ELSE AtStage(started, "read_kb")]
        /\ UNCHANGED <<kb_exists, kb, files, server, created, live, last, rt>>

\* save_screenshot writes the image, or fails and append_to_kb returns an error
SaveScreenshot(h, saved) ==
    LET me == host[h]
        path == ScreenshotPath(me.entry.captured)
    IN  /\ me.pc = "save_screenshot"
        /\ files' = IF saved THEN files \cup {path} ELSE files
        /\ host' = [host EXCEPT ![h] =
                       IF ~saved THEN Returned(me, FALSE)
                       ELSE IF WantsFile(me.entry)
                       THEN AtStage([me EXCEPT !.screenshot_path = path], "save_file")
                       ELSE AtStage([me EXCEPT !.screenshot_path = path], "read_kb")]
        /\ UNCHANGED <<kb_exists, kb, server, created, live, last, rt>>

\* save_file writes the attachment, or fails and append_to_kb returns an error
SaveFile(h, saved) ==
    LET me == host[h]
        path == FilePath(me.entry.title, me.entry.captured)
    IN  /\ me.pc = "save_file"
        /\ files' = IF saved THEN files \cup {path} ELSE files
        /\ host' = [host EXCEPT ![h] =
                       IF saved THEN AtStage([me EXCEPT !.file_path = path], "read_kb")
                       ELSE Returned(me, FALSE)]
        /\ UNCHANGED <<kb_exists, kb, server, created, live, last, rt>>

\* append_to_kb reads the existing content of kb.md
AppendRead(h) ==
    /\ host[h].pc = "read_kb"
    /\ host' = [host EXCEPT ![h].pc = "write_kb",
                            ![h].lines = IF kb_exists THEN kb ELSE <<>>]
    /\ UNCHANGED <<kb_exists, kb, files, server, created, live, last, rt>>

\* append_to_kb writes the new entry and the content it read, and returns
AppendWrite(h) ==
    LET me == host[h]
    IN  /\ me.pc = "write_kb"
        /\ kb' = PrependEntry(me.lines, me.entry, me.screenshot_path, me.file_path)
        /\ kb_exists' = TRUE
        /\ created' = Append(created, me.entry.captured)
        /\ live' = live \cup {me.entry.captured}
        /\ host' = [host EXCEPT ![h] = Returned(me, TRUE)]
        /\ UNCHANGED <<files, server, last, rt>>

\* main sends the result of append_to_kb to the extension
SendMessage(h) ==
    /\ host[h].pc = "send_message"
    /\ host' = [host EXCEPT ![h] = AfterResponse(host[h])]
    /\ UNCHANGED <<kb_exists, kb, files, server, created, live, last, rt>>

\* the notes background_process_entry works with
NotesOf(entry) == Strip(Get(entry, "notes", <<>>))

\* STEP 1: generate_ai_summary returns a summary, or nothing
Summarize(h, summary) ==
    LET me == host[h]
    IN  /\ me.pc = "summarize"
        /\ host' = [host EXCEPT ![h] =
                       IF summary # <<>>
                       THEN Calling([me EXCEPT !.summary = summary],
                                    "add_summary_to_entry", summary)
                       ELSE AtStage(me, "classify")]
        /\ UNCHANGED <<kb_exists, kb, files, server, created, live, last, rt>>

\* STEP 2: classify_entry returns nothing, and the stage is over
ClassifyNone(h) ==
    /\ host[h].pc = "classify"
    /\ host' = [host EXCEPT ![h] =
                   AtStage([host[h] EXCEPT !.ai_summary = host[h].summary], "relationships")]
    /\ UNCHANGED <<kb_exists, kb, files, server, created, live, last, rt>>

\* an exception inside background_process_entry: the handler around all four
\* steps logs it and the function returns
Raised(h) == AtStage(h, "idle")

\* STEP 2: classify_entry returns a classification; corrected notes that differ
\* from the notes of the entry are written first; a corrected_notes that is
\* not a string has no strip()
Classify(h, c) ==
    LET me == host[h]
        corrected_notes == Strip(c.corrected_notes)
        classified == [me EXCEPT !.classification = c, !.ai_summary = me.summary]
    IN  /\ me.pc = "classify"
        /\ host' = [host EXCEPT ![h] =
                       IF c.corrected_notes = JsonNull
                       THEN Raised([me EXCEPT !.ai_summary = me.summary])
                       ELSE IF corrected_notes # <<>> /\ corrected_notes # NotesOf(me.entry)
                       THEN Calling([classified EXCEPT
                                        !.entry = With(me.entry, "notes", corrected_notes)],
                                    "update_entry_notes", corrected_notes)
                       ELSE Calling(classified, "add_classification_to_entry", c)]
        /\ UNCHANGED <<kb_exists, kb, files, server, created, live, last, rt>>

MinNotesLength == 10

\* load_all_entries as background_process_entry calls it: nothing without kb.md
LoadAllEntries == IF kb_exists THEN load_all_entries(kb) ELSE <<>>

\* the test with the length of the notes left out
LongNotesAnyLength(h) == NotesOf(h.entry) # <<>>

\* the test STEP 3 makes on the notes before it calls extract_relationships
LongNotes(h) == NotesOf(h.entry) # <<>> /\ CharLen(NotesOf(h.entry)) >= MinNotesLength

\* STEP 3: no reference is resolved: the notes are short (extracts is FALSE),
\* extract_relationships finds nothing (loads is FALSE), or the entries are
\* loaded and the search finds no candidate; called holds the capabilities
\* the stage has called
RelationshipsNone(h, extracts, loads) ==
    LET me == host[h]
    IN  /\ me.pc = "relationships"
        /\ extracts => LongNotes(me)
        /\ loads => extracts
        /\ host' = [host EXCEPT ![h] =
                       AtStage([me EXCEPT !.loaded = loads,
                                          !.all_entries = IF loads THEN LoadAllEntries
                                                          ELSE <<>>,
                                          !.called = IF extracts
                                                     THEN {"extract_relationships"}
                                                     ELSE {}],
                               "similarity")]
        /\ UNCHANGED <<kb_exists, kb, files, server, created, live, last, rt>>

\* STEP 3: load_all_entries reads kb.md, the search finds candidates among the
\* other entries and resolve_with_ai returns the answer of the capability
Relationships(h, resolution) ==
    LET me == host[h]
        notes == NotesOf(me.entry)
    IN  /\ me.pc = "relationships"
        /\ LongNotes(me)
        /\ kb_exists
        /\ Range(Timestamps(kb)) \ {me.entry.captured} # {}
        /\ host' = [host EXCEPT ![h].pc = "resolved", ![h].resolution = resolution,
                                ![h].called = {"extract_relationships", "resolve_with_ai"},
                                ![h].loaded = TRUE,
                                ![h].all_entries = load_all_entries(kb)]
        /\ UNCHANGED <<kb_exists, kb, files, server, created, live, last, rt>>

\* the test with confidence low let through
AcceptedAlsoLow(resolution) ==
    resolution.timestamp # <<>> /\ resolution.confidence \in {"high", "medium", "low"}

\* the test background_process_entry makes on a resolution
Accepted(resolution) ==
    resolution.timestamp # <<>> /\ resolution.confidence \in {"high", "medium"}

\* STEP 3: an accepted resolution is written as a relationship of the entry
Resolved(h) ==
    LET me == host[h]
    IN  /\ me.pc = "resolved"
        /\ host' = [host EXCEPT ![h] =
                       IF Accepted(me.resolution)
                       THEN Calling(me, "add_relationships_to_entry",
                                    RefsTo(me.resolution.timestamp, <<"mentions">>))
                       ELSE AtStage(me, "similarity")]
        /\ UNCHANGED <<kb_exists, kb, files, server, created, live, last, rt>>

\* what datetime.now() returns in get_similarity_candidates: a minute after
\* the second timestamp, or months after the last
Nows == {SecondsOf["T2"] + 60, SecondsOf["T3"] + 100 * 86400}

\* the entry as STEP 4 hands it on: the message with the summary and the
\* classification set on it
CurrentEntry(h) ==
    With(With(With(With(h.entry, "aiSummary", h.summary),
                   "topics", h.classification.topics),
              "entity", h.classification.entity),
         "people", h.classification.people)

\* the timestamps of a list of entries
TimestampsOf(entries) == [i \in 1..Len(entries) |-> entries[i].timestamp]

\* the test STEP 4 makes: notes, selected text or a summary
HasContent(h) ==
    \/ NotesOf(h.entry) # <<>>
    \/ Strip(Get(h.entry, "selectedText", <<>>)) # <<>>
    \/ h.summary # <<>>

\* the candidates STEP 4 gets: from the entries STEP 3 loaded, or loaded now
SimilarityCandidates(h, now) ==
    get_similarity_candidates(IF h.loaded THEN h.all_entries ELSE LoadAllEntries,
                              CurrentEntry(h), now)

\* STEP 4: nothing similar: no content or no candidate (compares is FALSE),
\* or find_similar_entries is called and answers with nothing
SimilarityNone(h, compares) ==
    LET me == host[h]
    IN  /\ me.pc = "similarity"
        /\ compares => /\ HasContent(me)
                       /\ \E now \in Nows : SimilarityCandidates(me, now) # <<>>
        /\ host' = [host EXCEPT ![h] =
                       AtStage([me EXCEPT !.called = IF compares
                                                    THEN {"find_similar_entries"}
                                                    ELSE {}],
                               "idle")]
        /\ UNCHANGED <<kb_exists, kb, files, server, created, live, last, rt>>

\* STEP 4: the entry has content, get_similarity_candidates finds candidates
\* and find_similar_entries answers with a timestamp
Similarity(h, to, now) ==
    LET me == host[h]
    IN  /\ me.pc = "similarity"
        /\ HasContent(me)
        /\ LetIn(SimilarityCandidates(me, now), LAMBDA similarity_candidates :
                    /\ similarity_candidates # <<>>
                    /\ host' = [host EXCEPT ![h] =
                           Calling([me EXCEPT !.similarity_candidates =
                                                 TimestampsOf(similarity_candidates),
                                              !.called = {"find_similar_entries"}],
                                   "add_similar_to_entry",
                                   RefsTo(to, <<"same", " ", "topic">>))])
        /\ UNCHANGED <<kb_exists, kb, files, server, created, live, last, rt>>

\* a field writer reads kb.md; it returns False without writing when the file
\* or the entry is missing
FieldRead(h) ==
    LET me == host[h]
        res == Apply(me.op, kb, me.entry.captured, me.arg)
    IN  /\ me.pc = "field_read"
        /\ host' = [host EXCEPT ![h] =
                       IF kb_exists /\ res.ok
                       THEN [me EXCEPT !.pc = "field_write", !.lines = kb]
                       ELSE AfterWriter(me)]
        /\ UNCHANGED <<kb_exists, kb, files, server, created, live, last, rt>>

\* the field writer writes the lines it computed from what it read
FieldWrite(h) ==
    LET me == host[h]
    IN  /\ me.pc = "field_write"
        /\ kb' = Apply(me.op, me.lines, me.entry.captured, me.arg).lines
        /\ host' = [host EXCEPT ![h] = AfterWriter(me)]
        /\ UNCHANGED <<kb_exists, files, server, created, live, last, rt>>

(***************************************************************************)
(* kb-server.py: one request at a time                                     *)
(***************************************************************************)
\* the reply is sent and the server waits for the next request
Replied(s) ==
    [s EXCEPT !.pc = "idle", !.timestamp = <<>>, !.status = <<>>, !.lines = <<>>,
              !.files_to_delete = <<>>]

\* do_DELETE: delete_entry reads kb.md and runs its loop; without the file or
\* the entry it returns an error
DeleteRead(timestamp) ==
    LET res == delete_entry(kb, timestamp)
        counted == [server EXCEPT !.requests = @ + 1]
    IN  /\ server.pc = "idle"
        /\ server.requests < MaxRequests
        /\ server' = IF kb_exists /\ res.deleted
                     THEN [counted EXCEPT !.pc = "delete", !.timestamp = timestamp,
                                          !.lines = kb,
                                          !.files_to_delete = res.files_to_delete]
                     ELSE counted
        /\ UNCHANGED <<kb_exists, kb, files, host, created, live, last, rt>>

\* delete_entry unlinks the next of the paths it collected, if the file exists
Unlink ==
    /\ server.pc = "delete"
    /\ server.files_to_delete # <<>>
    /\ files' = files \ {Head(server.files_to_delete)}
    /\ server' = [server EXCEPT !.files_to_delete = Tail(@)]
    /\ UNCHANGED <<kb_exists, kb, host, created, live, last, rt>>

\* delete_entry writes the lines it kept and returns success
DeleteWrite ==
    /\ server.pc = "delete"
    /\ server.files_to_delete = <<>>
    /\ kb' = delete_entry(server.lines, server.timestamp).new_lines
    /\ live' = live \ {server.timestamp}
    /\ server' = Replied(server)
    /\ UNCHANGED <<kb_exists, files, host, created, last, rt>>

\* do_PATCH: update_entry_status reads kb.md and runs its loop
StatusRead(timestamp, status) ==
    LET res == update_entry_status(kb, timestamp, status)
        counted == [server EXCEPT !.requests = @ + 1]
    IN  /\ server.pc = "idle"
        /\ server.requests < MaxRequests
        /\ server' = IF kb_exists /\ res.ok
                     THEN [counted EXCEPT !.pc = "status", !.timestamp = timestamp,
                                          !.status = status, !.lines = kb]
                     ELSE counted
        /\ UNCHANGED <<kb_exists, kb, files, host, created, live, last, rt>>

\* update_entry_status writes its new lines and returns success
StatusWrite ==
    /\ server.pc = "status"
    /\ kb' = update_entry_status(server.lines, server.timestamp, server.status).lines
    /\ server' = Replied(server)
    /\ UNCHANGED <<kb_exists, files, host, created, live, last, rt>>

Next ==
    \/ \E h \in Hosts, e \in HostEntries, api_key \in BOOLEAN : Receive(h, e, api_key)
    \/ \E h \in Hosts, saved \in BOOLEAN : SaveScreenshot(h, saved)
    \/ \E h \in Hosts, saved \in BOOLEAN : SaveFile(h, saved)
    \/ \E h \in Hosts : AppendRead(h)
    \/ \E h \in Hosts : AppendWrite(h)
    \/ \E h \in Hosts : SendMessage(h)
    \/ \E h \in Hosts, s \in Summaries \cup {<<>>} : Summarize(h, s)
    \/ \E h \in Hosts : ClassifyNone(h)
    \/ \E h \in Hosts, c \in ClassifyResults : Classify(h, c)
    \/ \E h \in Hosts, extracts, loads \in BOOLEAN : RelationshipsNone(h, extracts, loads)
    \/ \E h \in Hosts, r \in Resolutions : Relationships(h, r)
    \/ \E h \in Hosts : Resolved(h)
    \/ \E h \in Hosts, compares \in BOOLEAN : SimilarityNone(h, compares)
    \/ \E h \in Hosts, to \in AnswerTimestamps, now \in Nows : Similarity(h, to, now)
    \/ \E h \in Hosts : FieldRead(h)
    \/ \E h \in Hosts : FieldWrite(h)
    \/ \E ts \in RequestTimestamps : DeleteRead(ts)
    \/ Unlink
    \/ DeleteWrite
    \/ \E ts \in RequestTimestamps, st \in Statuses : StatusRead(ts, st)
    \/ StatusWrite

Spec == Init /\ [][Next]_vars

(***************************************************************************)
(* Properties of the programs running side by side                         *)
(***************************************************************************)
\* the number of processes that have read kb.md for a mutation and have not
\* yet rewritten it
Mutating ==
    Cardinality({h \in Hosts : host[h].pc \in {"write_kb", "field_write"}})
    + (IF server.pc \in {"delete", "status"} THEN 1 ELSE 0)

\* C1: store mutations are mutually exclusive: at no time are two mutations of
\* kb.md, in a native host or in the kb-server, both between their read of the
\* file and their rewrite of it.
C1_MutationsMutuallyExclusive == Mutating <= 1

NoOperationInProgress ==
    /\ \A h \in Hosts : host[h].pc = "idle"
    /\ server.pc = "idle"

\* C2: whenever no operation is in progress, the timestamps present in kb.md
\* are those whose append_to_kb returned success minus those whose delete_entry
\* returned success: no created entry is dropped, no deleted entry reappears.
C2_EntriesAreCreatedMinusDeleted ==
    NoOperationInProgress => Range(Timestamps(kb)) = live

\* the side-file paths the entries of kb.md reference
Referenced(lines) ==
    ({e.screenshot : e \in Range(Entries(lines))}
     \cup {e.file : e \in Range(Entries(lines))}) \ {NoPath}

\* C9: at every point of every execution, every screenshot or attachment path
\* referenced by an entry present in kb.md names a file that exists under the
\* project folder, also between the steps of append_to_kb and of delete_entry.
C9_ReferencedSideFilesExist ==
    kb_exists => Referenced(kb) \subseteq files

\* the step of background_process_entry a host is in: 1 summary, 2 classify,
\* 3 relationships, 4 similarity, and 0 outside the pipeline
StageOf(h) ==
    CASE h.pc = "summarize" -> 1
      [] h.pc = "classify" -> 2
      [] h.pc \in {"relationships", "resolved"} -> 3
      [] h.pc = "similarity" -> 4
      [] h.pc \in {"field_read", "field_write"} ->
            CASE h.op = "add_summary_to_entry" -> 1
              [] h.op \in {"update_entry_notes", "add_classification_to_entry",
                           "add_category_to_entry"} -> 2
              [] h.op = "add_relationships_to_entry" -> 3
              [] h.op = "add_similar_to_entry" -> 4
              [] OTHER -> 0
      [] OTHER -> 0

\* the points at which a step of background_process_entry begins
StageStarts == {"summarize", "classify", "relationships", "similarity"}

InPipeline(h) == StageOf(h) > 0

StagesInOrder(h) ==
    LET was == StageOf(host[h])
        is == StageOf(host'[h])
    IN  /\ (was = 0 /\ is # 0) => (is = 1 /\ host[h].pc = "send_message")
        /\ (was # 0 /\ is # was) => (is = was + 1 \/ is = 0)
        /\ (host'[h].pc \in StageStarts /\ host'[h] # host[h]) => is = was + 1
        /\ (host[h].pc = "classify" /\ host'[h].pc # "classify")
              => host'[h].ai_summary = host[h].summary
        /\ (was = 1 /\ is = 1) => host'[h].ai_summary = <<>>

WrittenBy(h) == format_markdown_entry(h.entry, h.screenshot_path, h.file_path)

ResponseBeforePipeline(h) ==
    /\ (host[h].pc = "write_kb" /\ host'[h].pc # "write_kb")
          => /\ host'[h].pc = "send_message" /\ host'[h].success
             /\ ~host'[h].responded
             /\ SubSeq(kb', 1, Len(WrittenBy(host[h]))) = WrittenBy(host[h])
    /\ (host[h].pc # "send_message" /\ host'[h].pc = "send_message" /\ host'[h].success)
          => host[h].pc = "write_kb"
    /\ (~InPipeline(host[h]) /\ InPipeline(host'[h]))
          => host[h].pc = "send_message" /\ host[h].success
    /\ InPipeline(host'[h]) => host'[h].responded

\* C14: for every append message the host sends the response before
\* background_process_entry starts: append_to_kb has written the entry to
\* kb.md before it returns the result that is sent, and the host is in no
\* stage of the pipeline (no capability call, no field writer) until the
\* response has been sent.
C14_ResponseBeforePipeline == [][\A h \in Hosts : ResponseBeforePipeline(h)]_vars

C14_Witness ==
    \E h \in Hosts :
        /\ host[h].pc = "field_write"
        /\ host[h].op = "add_summary_to_entry"
        /\ host[h].responded
        /\ host[h].success
        /\ host[h].entry.captured \in Range(Timestamps(kb))

LaterStagesAttempted(h) ==
    /\ (InPipeline(host[h]) /\ ~InPipeline(host'[h]))
          => StageOf(host[h]) = 4 /\ host'[h].pc = "idle"
    /\ InPipeline(host[h]) => host'[h].responded

\* C12: a failure in one step of background_process_entry (a capability that
\* errors or answers with a malformed response, a field writer that returns
\* false) never keeps the later steps from being attempted: a host leaves the
\* pipeline only from its last step, and nothing more is sent to the caller.
C12_FailureDoesNotAbortLaterStages == [][\A h \in Hosts : LaterStagesAttempted(h)]_vars

\* main can take the next message from a host's input
CanReceive(h) ==
    ENABLED (\E entry \in HostEntries, api_key \in BOOLEAN : Receive(h, entry, api_key))

\* C13: background_process_entry does not block message handling: while the
\* pipeline of one entry is running, the native host can read and answer a
\* further message (as long as there is one to read).
C13_PipelineDoesNotBlockMessages ==
    \A h \in Hosts :
        (InPipeline(host[h]) /\ host[h].received < MaxMessages) => CanReceive(h)

\* the Related lines of a file
RelatedLines(lines) ==
    {lines[i] : i \in {k \in 1..Len(lines) : IsFieldLine(lines[k], <<"Related">>)}}

OnlyConfidentRelated(h) ==
    LET me == host[h]
        confident == /\ me.resolution.timestamp # <<>>
                     /\ me.resolution.confidence \in {"high", "medium"}
    IN  /\ (me.op = "add_relationships_to_entry")
            => /\ confident
               /\ me.arg = <<[timestamp |-> me.resolution.timestamp,
                              label |-> <<"mentions">>]>>
        /\ (me.pc = "resolved" /\ ~confident)
            => /\ host'[h].op # "add_relationships_to_entry"
               /\ host'[h].pc \in {"resolved", "similarity"}
        /\ (me.pc = "relationships" /\ host'[h].pc # "resolved")
            => host'[h].op # "add_relationships_to_entry"
        /\ (me.pc = "field_write" /\ host'[h] # me)
            => RelatedLines(kb') \ RelatedLines(me.lines) \subseteq
                  IF me.op = "add_relationships_to_entry" /\ confident
                  THEN {Field(<<"Related">>,
                              me.resolution.timestamp \o <<" ", "(", "mentions", ")">>)}
                  ELSE {}

\* C19 as stated: a timestamp is written into an entry's Related field only if
\* resolve_with_ai returned it with confidence high or medium, and no Related
\* line is written when no reference resolves: every Related line that appears
\* in kb.md is the one add_relationships_to_entry writes for an accepted
\* resolution.
C19_RelatedOnlyFromResolution ==
    [][\A line \in RelatedLines(kb') \ RelatedLines(kb) :
          \E h \in Hosts :
              /\ host[h].pc = "field_write"
              /\ host[h].op = "add_relationships_to_entry"
              /\ host[h].resolution.timestamp # <<>>
              /\ host[h].resolution.confidence \in {"high", "medium"}
              /\ line = Field(<<"Related">>,
                              host[h].resolution.timestamp \o <<" ", "(", "mentions", ")">>)]_vars

\* C19, amended: background_process_entry writes a timestamp into an entry's
\* Related field only if resolve_with_ai returned it with confidence high or
\* medium: a resolution with confidence low or none, or without a timestamp,
\* leads to no call of add_relationships_to_entry, none is made when no
\* reference resolves, and no other field writer adds a Related line.
C19_OnlyConfidentRelated == [][\A h \in Hosts : OnlyConfidentRelated(h)]_vars

C19_Witness ==
    \E h \in Hosts :
        /\ host[h].pc = "field_write"
        /\ host[h].op = "add_relationships_to_entry"
        /\ host[h].resolution.confidence = "medium"

\* the inputs the claim names: an invalid project folder, an entry without
\* type, captured or source, a captured that is not a timestamp, a side-file
\* that cannot be saved
AppendRejected ==
    \/ ~last.folder_valid
    \/ \E field \in {"type", "captured", "source"} : field \notin last.arg.keys
    \/ ~MatchesTimestampFormat(last.arg.captured)
    \/ last.save_failed

Mutations ==
    {"delete_entry", "update_entry_status", "update_entry_notes", "add_summary_to_entry",
     "add_classification_to_entry", "add_category_to_entry", "add_relationships_to_entry",
     "add_similar_to_entry"}

\* some header line of the file carries the timestamp
Carried(lines, ts) ==
    \E i \in 1..Len(lines) : IsHeaderStart(lines[i]) /\ Contains(lines[i], Tick(ts))

\* C16: a mutation (delete_entry, update_entry_status or a field writer)
\* addressed to a timestamp that no entry carries, or issued while kb.md does
\* not exist, reports failure, leaves kb.md as it was, does not create it, and
\* deletes no side-file.
C16_MissingEntryMutationFails ==
    (last.op \in Mutations /\ (~last.existed \/ ~Carried(last.before, last.ts)))
        => /\ ~last.ok
           /\ kb = last.before
           /\ kb_exists = last.existed
           /\ files = last.files_before

\* the paths named by the screenshot line and the attachment line of the
\* entries of a file that carry one of the timestamps
SideFilesOf(lines, Ts, Paths) ==
    {p \in Paths :
        \E i \in 1..Len(lines) :
            /\ IsHeaderStart(lines[i])
            /\ \E ts \in Ts : Contains(lines[i], Tick(ts))
            /\ \E j \in (i + 1)..LastLineOf(lines, i) :
                  lines[j] \in {ScreenshotLine(p), AttachmentLine(p)}}

\* C17: delete_entry unlinks, and reports in deleted_files, only the side-files
\* named by the screenshot line and the attachment line of the deleted entry:
\* no path taken from another line of the entry (Notes, blockquote, AI Summary),
\* and no side-file that an entry still in kb.md references.
C17_DeleteUnlinksOnlyOwnSideFiles ==
    (last.op = "delete_entry" /\ last.ok)
        => LET Paths == last.files_before \cup Range(last.deleted_files)
               Unlinked == last.files_before \ files
               Own == SideFilesOf(last.before, {last.ts}, Paths)
           IN  /\ Range(last.deleted_files) \subseteq Own
               /\ Unlinked \subseteq Own
               /\ Unlinked \cap SideFilesOf(kb, {T1, T2}, Paths) = {}


\* C18: in the similarity stage the entry being enriched is excluded from the
\* prefiltered candidates: the candidate list handed to the similarity
\* capability never contains the timestamp of the entry itself
C18_CandidatesExcludeSelf ==
    \A h \in Hosts :
        host[h].entry.captured \notin Range(host[h].similarity_candidates)

(***************************************************************************)
(* host.py: fuzzy_search_candidates on a store of two entries              *)
(***************************************************************************)
\* what classify_entry answered for entry A, a task, and for entry B
TaskClassifications ==
    {[entity |-> <<"task">>, topics |-> << <<"auth">> >>, people |-> <<>>],
     [entity |-> <<"task">>, topics |-> <<>>, people |-> <<>>]}
KnowledgeClassification ==
    [entity |-> <<"knowledge">>, topics |-> <<>>, people |-> << <<"Ann">> >>]

\* entry A, captured at T1, and entry B, captured a day later
EntriesA == {IdeaEntry(T1), LongNoteEntry(T1), LinkEntry(T1)}
EntriesB == {IdeaEntry(T2), LinkEntry(T2)}

\* kb.md after A is appended and classified, then B is appended and classified
StoreOf(a, ca, b, cb) ==
    add_classification_to_entry(
        PrependEntry(add_classification_to_entry(PrependEntry(<<>>, a, NoPath, NoPath),
                                                 a.captured, ca).lines,
                     b, NoPath, NoPath),
        b.captured, cb).lines

\* the target descriptions of a reference: none, words of A, words of no entry
TargetDescriptions ==
    {<<>>, <<"login">>, <<"Idea">>, <<"auth">>, <<"zebra">>,
     <<"fix", " ", "the", " ", "Page">>}

SearchInit ==
    /\ kb_exists = TRUE
    /\ kb \in {StoreOf(a, ca, b, KnowledgeClassification) :
                  a \in EntriesA, ca \in TaskClassifications, b \in EntriesB}
    /\ files = {}
    /\ created = <<T1, T2>>
    /\ live = {T1, T2}
    /\ LastInit /\ ProcessesIdle
    /\ rt \in [pc : {"search"}, target_description : TargetDescriptions,
               target_type : {<<"task">>, <<"any">>},
               temporal_hint : {<<"none">>, <<"yesterday">>},
               current_timestamp : {T2, <<"T3">>}, candidates : {<<>>}]

\* STEP 3 of background_process_entry on one reference: the entries are
\* loaded and searched
Search(now) ==
    /\ rt.pc = "search"
    /\ rt' = [rt EXCEPT !.pc = "found",
                        !.candidates =
                            fuzzy_search_candidates(load_all_entries(kb),
                                                    rt.target_description, rt.target_type,
                                                    rt.temporal_hint, rt.current_timestamp,
                                                    now)]
    /\ UNCHANGED <<kb_exists, kb, files, host, server, created, live, last>>

SearchNext == \E now \in Nows : Search(now)

SearchSpec == SearchInit /\ [][SearchNext]_vars

\* the entry of kb.md with a timestamp, as load_all_entries returns it
StoredAt(timestamp) ==
    LetIn(load_all_entries(kb), LAMBDA all_entries :
        all_entries[CHOOSE i \in 1..Len(all_entries) :
                        all_entries[i].timestamp = timestamp])

\* the search is called with the type filter task and no temporal filter, or
\* with the temporal filter yesterday from the timestamp of B
TypeFilterCase == rt.target_type = <<"task">> /\ rt.temporal_hint = <<"none">>
YesterdayCase == rt.temporal_hint = <<"yesterday">> /\ rt.current_timestamp = T2

\* a target description says something of an entry: without regard to case
\* it is part of the title or of the first notes line, it contains a topic or
\* is part of one, or it shares a word with the title or the first notes line
Describes(target_description, entry) ==
    LET target == Lower(target_description)
        title == Lower(entry.title)
        notes == Lower(entry.content)
    IN  \/ Contains(title, target)
        \/ Contains(notes, target)
        \/ \E k \in 1..Len(entry.topics) :
              \/ Contains(target, Lower(entry.topics[k]))
              \/ Contains(Lower(entry.topics[k]), target)
        \/ WordsOf(target) \cap (WordsOf(title) \cup WordsOf(notes)) # {}

\* C20 as stated: with A (timestamp T1, entity task) and B (timestamp a day
\* later, entity knowledge) stored, fuzzy_search_candidates returns exactly
\* [A] with the type filter task, and exactly [A] with the temporal filter
\* yesterday from the timestamp of B, whatever the target description
C20_FiltersReturnExactlyA ==
    rt.pc = "found" /\ (TypeFilterCase \/ YesterdayCase)
        => rt.candidates = <<StoredAt(T1)>>

\* C20 amended: in both cases fuzzy_search_candidates returns exactly [A] when
\* the target description says something of A, and nothing when it does not;
\* it never returns B
C20_FiltersReturnAWhenDescribed ==
    rt.pc = "found" /\ (TypeFilterCase \/ YesterdayCase)
        => rt.candidates = IF Describes(rt.target_description, StoredAt(T1))
                           THEN <<StoredAt(T1)>> ELSE <<>>

\* the search with the type filter task on a description that names both A
\* and B has returned A alone
C20_Witness ==
    /\ rt.pc = "found"
    /\ TypeFilterCase
    /\ rt.target_description = <<"Idea">>
    /\ Describes(rt.target_description, StoredAt(T2))
    /\ StoredAt(T1).entity = <<"task">> /\ StoredAt(T2).entity = <<"knowledge">>
    /\ rt.candidates = <<StoredAt(T1)>>

(***************************************************************************)
(* host.py: get_similarity_candidates on a store of three entries          *)
(***************************************************************************)
\* a stored entry as load_all_entries returns it
StoredEntry(timestamp, topics, entity, people) ==
    [LoadedEntry(timestamp, <<"Idea">>) EXCEPT !.topics = topics, !.entity = entity,
                                               !.people = people]

RustCli == << <<"rust">>, <<"cli">> >>
RustWeb == << <<"rust">>, <<"web">> >>
\* the topics of an entry that shares none with the current entry
OtherTopics == {<<>>, << <<"web">> >>}
EntityKinds == {<<"task">>, <<"knowledge">>}
PeopleLists == {<<>>, << <<"Ann">> >>}

\* the orders of three things
Orders == {p \in [1..3 -> 1..3] : \A i, j \in 1..3 : i # j => p[i] # p[j]}
TimestampOf == <<T1, T2, <<"T3">>>>

\* entry A, entry B and an unrelated entry in any order, each with any of the
\* timestamps, entity kinds and people lists
RankStores ==
    {[i \in 1..3 |->
         StoredEntry(TimestampOf[at[i]],
                     CASE place[i] = 1 -> RustCli [] place[i] = 2 -> RustWeb
                       [] place[i] = 3 -> unrelated,
                     kinds[i], IF place[i] = 2 THEN <<>> ELSE people[place[i]])] :
        place \in Orders, at \in Orders, unrelated \in OtherTopics,
        kinds \in [1..3 -> EntityKinds], people \in [{1, 3} -> PeopleLists]}

\* the current entry as STEP 4 passes it: topics [rust], no timestamp key
RankCurrentEntries ==
    {With(With(With(IdeaEntry(<<"T3">>), "topics", << <<"rust">> >>), "entity", entity),
          "people", people) :
        entity \in {<<>>, <<"task">>}, people \in PeopleLists}

\* what datetime.now() returns: a minute after the last timestamp, or months
\* after it
RankNows == {SecondsOf["T3"] + 60, SecondsOf["T3"] + 100 * 86400}

RankInit ==
    /\ StoreInit /\ LastInit /\ ProcessesIdle
    /\ rt \in [pc : {"rank"}, all_entries : RankStores, current_entry : RankCurrentEntries,
               now : RankNows, candidates : {<<>>}]

\* STEP 4 of background_process_entry: the prefilter on the loaded entries
Prefilter ==
    /\ rt.pc = "rank"
    /\ rt' = [rt EXCEPT !.pc = "ranked",
                        !.candidates = get_similarity_candidates(rt.all_entries,
                                                                 rt.current_entry, rt.now)]
    /\ UNCHANGED <<kb_exists, kb, files, host, server, created, live, last>>

RankNext == Prefilter

RankSpec == RankInit /\ [][RankNext]_vars

\* where an entry stands in a list, 0 when it is not in it
PositionIn(entries, entry) ==
    IF \E i \in 1..Len(entries) : entries[i] = entry
    THEN CHOOSE i \in 1..Len(entries) : entries[i] = entry
    ELSE 0

\* an entry is among the candidates, and before another one if that is too
RankedAbove(entry, other) ==
    /\ PositionIn(rt.candidates, entry) > 0
    /\ \/ PositionIn(rt.candidates, other) = 0
       \/ PositionIn(rt.candidates, entry) < PositionIn(rt.candidates, other)

\* an entry has a topic of the current entry
SharesTopic(entry) == Range(entry.topics) \cap Range(rt.current_entry.topics) # {}

\* what an entry scores apart from its topics: 15 for the entity kind of the
\* current entry, 25 for each person of the current entry, 20 when it is at
\* most 7 days and 10 when it is at most 30 days before the current time
Bonus(entry) ==
    (IF rt.current_entry.entity # <<>> /\ entry.entity = rt.current_entry.entity
     THEN 15 ELSE 0)
    + 25 * Cardinality(Range(entry.people) \cap Range(rt.current_entry.people))
    + (IF (rt.now - SecondsOf[entry.timestamp[1]]) \div 86400 <= 7 THEN 20
       ELSE IF (rt.now - SecondsOf[entry.timestamp[1]]) \div 86400 <= 30 THEN 10
       ELSE 0)

\* two entries that share a topic and score the same are in the order in
\* which they were met
TiesInEncounterOrder ==
    \A a, b \in Range(rt.all_entries) :
        /\ SharesTopic(a) /\ SharesTopic(b)
        /\ Bonus(a) = Bonus(b)
        /\ PositionIn(rt.all_entries, a) < PositionIn(rt.all_entries, b)
        => PositionIn(rt.candidates, a) < PositionIn(rt.candidates, b)

\* C21 as stated: for a current entry with topics [rust], the entries A
\* (topics rust, cli) and B (topics rust, web) are ranked above every entry
\* that shares no topic with the current entry, whatever the timestamps,
\* entity kinds and people lists, and A and B keep their encounter order when
\* their scores are equal
C21_TopicSharersRankedFirst ==
    rt.pc = "ranked" =>
        /\ \A a, u \in Range(rt.all_entries) :
              SharesTopic(a) /\ ~SharesTopic(u) => RankedAbove(a, u)
        /\ TiesInEncounterOrder

\* C21 amended: A and B are ranked above an entry that shares no topic
\* whenever what that entry scores for entity kind, people and recency is less
\* than 30 above what A, respectively B, scores for them; A and B keep their
\* encounter order when their scores are equal
C21_TopicSharersRankedFirstWithinThirty ==
    rt.pc = "ranked" =>
        /\ \A a, u \in Range(rt.all_entries) :
              SharesTopic(a) /\ ~SharesTopic(u) /\ Bonus(u) < 30 + Bonus(a)
                  => RankedAbove(a, u)
        /\ TiesInEncounterOrder

\* B was met before A, both score the same, and an entry without a shared
\* topic that scores too is ranked below both
C21_Witness ==
    /\ rt.pc = "ranked"
    /\ Len(rt.candidates) = 3
    /\ rt.all_entries[1].topics = RustWeb
    /\ rt.all_entries[2].topics \in OtherTopics
    /\ rt.all_entries[3].topics = RustCli
    /\ Bonus(rt.all_entries[1]) = Bonus(rt.all_entries[3])
    /\ Bonus(rt.all_entries[2]) > Bonus(rt.all_entries[1])
    /\ rt.candidates = <<rt.all_entries[1], rt.all_entries[3], rt.all_entries[2]>>

\* the lines of the entry at the top of kb.md: from its header to the line
\* before the next header
TopEntry(lines) ==
    2..(FirstFrom(lines, 2, LAMBDA l : IsNewHeader(l) \/ IsOldHeader(l)) - 1)

\* the lines of the top entry that are a field of a name
FieldLinesOf(lines, name) == {j \in TopEntry(lines) : IsFieldLine(lines[j], name)}

\* the Notes line of the top entry and its continuation lines
NotesBlockOf(lines) ==
    {j \in TopEntry(lines) :
        \E k \in FieldLinesOf(lines, <<"Notes">>) :
            k <= j /\ \A m \in (k + 1)..j : StartsWith(lines[m], Indent4)}

\* the entry with a timestamp is at the top of kb.md, is not classified and
\* has notes
FreshWithNotes(lines, timestamp) ==
    /\ lines # <<>> /\ IsNewHeader(lines[1]) /\ Contains(lines[1], Tick(timestamp))
    /\ FieldLinesOf(lines, <<"Entity">>) = {} /\ FieldLinesOf(lines, <<"Topics">>) = {}
    /\ FieldLinesOf(lines, <<"Notes">>) # {}

\* C22: after add_classification_to_entry has written its result for a freshly
\* created, not yet classified entry with a Notes block, the Entity line lies
\* after every line of the Notes block, continuation lines included, and
\* before any Topics line of the entry, whatever the classification
C22_EntityAfterNotesBeforeTopics ==
    /\ last.op = "add_classification_to_entry" /\ last.ok
    /\ FreshWithNotes(last.before, last.ts)
    => /\ last.arg.entity # <<>> => Cardinality(FieldLinesOf(kb, <<"Entity">>)) = 1
       /\ \A e \in FieldLinesOf(kb, <<"Entity">>) :
             /\ \A n \in NotesBlockOf(kb) : n < e
             /\ \A t \in FieldLinesOf(kb, <<"Topics">>) : e < t
       /\ NotesBlockOf(kb) = NotesBlockOf(last.before)

\* an entry with a continuation line in its notes was classified with an
\* entity and topics
C22_Witness ==
    /\ last.op = "add_classification_to_entry" /\ last.ok
    /\ FreshWithNotes(last.before, last.ts)
    /\ Cardinality(NotesBlockOf(kb)) = 2
    /\ FieldLinesOf(kb, <<"Entity">>) # {}
    /\ FieldLinesOf(kb, <<"Topics">>) # {}

(***************************************************************************)
(* kb-server.py: parse_kb_markdown on a header line of the legacy format   *)
(***************************************************************************)
\* - **[Title](URL)** - GRAVE type GRAVE - GRAVE timestamp GRAVE, the title
\* plain when there is no url, with the group suffix when there is a group
LegacyLine(title, url, type, timestamp, group) ==
    <<"-", " ", "*", "*">>
    \o (IF url # <<>> THEN <<"[">> \o title \o <<"]", "(">> \o url \o <<")">> ELSE title)
    \o <<"*", "*">> \o OldSep \o Tick(type) \o OldSep \o Tick(timestamp)
    \o (IF group # <<>>
        THEN OldSep \o <<Backtick, "group", ":", " ">> \o group \o <<Backtick>>
        ELSE <<>>)

LegacyTitles ==
    {<<"Old", " ", "Title">>, <<"Idea">>, <<"a", "-", "b">>,
     <<"Plan", " ", "(", "v2", ")">>}
LegacyUrls == {<<>>, <<"http://", "x">>, <<"https://", "x", "/", "a">>}
LegacyTypes == {<<"link">>, <<"idea">>, <<"pdf">>}
LegacyTimestamps == {<<"2023-01-01", " ", "00:00:00">>, T1}
LegacyGroups == {<<>>, <<"G", " ", "(", "blue", ")">>}

LegacyInit ==
    /\ StoreInit /\ LastInit /\ ProcessesIdle
    /\ rt \in [pc : {"line"}, title : LegacyTitles, url : LegacyUrls, type : LegacyTypes,
               timestamp : LegacyTimestamps, group : LegacyGroups, entries : {<<>>}]

\* the viewer reads a kb.md that holds the line
LegacyParse ==
    /\ rt.pc = "line"
    /\ rt' = [rt EXCEPT !.pc = "parsed",
                        !.entries = Entries(<<LegacyLine(rt.title, rt.url, rt.type,
                                                         rt.timestamp, rt.group)>>)]
    /\ UNCHANGED <<kb_exists, kb, files, host, server, created, live, last>>

LegacyNext == LegacyParse

LegacySpec == LegacyInit /\ [][LegacyNext]_vars

\* C23: parse_kb_markdown parses a legacy header line (bold title, linked or
\* not, then type and timestamp joined by dashes) into one entry with that
\* title, url, type and timestamp and with source browser
C23_LegacyHeaderParsed ==
    rt.pc = "parsed" =>
        /\ Len(rt.entries) = 1
        /\ rt.entries[1].title = rt.title
        /\ rt.entries[1].url = rt.url
        /\ rt.entries[1].type = rt.type
        /\ rt.entries[1].timestamp = rt.timestamp
        /\ rt.entries[1].source = <<"browser">>

\* the line for title Old Title, url http://x, type link and timestamp
\* 2023-01-01 00:00:00 was parsed to those values
C23_Witness ==
    /\ rt.pc = "parsed"
    /\ rt.title = <<"Old", " ", "Title">> /\ rt.url = <<"http://", "x">>
    /\ rt.type = <<"link">> /\ rt.timestamp = <<"2023-01-01", " ", "00:00:00">>
    /\ rt.group = <<>>
    /\ Len(rt.entries) = 1
    /\ rt.entries[1].title = <<"Old", " ", "Title">>
    /\ rt.entries[1].url = <<"http://", "x">>
    /\ rt.entries[1].type = <<"link">>
    /\ rt.entries[1].timestamp = <<"2023-01-01", " ", "00:00:00">>
    /\ rt.entries[1].source = <<"browser">>

\* C24: in every state of the store an entry has a Status line only if it has
\* an Entity line with the value task, after any sequence of classification
\* writes and status updates
C24_StatusOnlyOnTasks ==
    kb_exists =>
        \A k \in 1..Len(Entries(kb)) :
            Entries(kb)[k].taskStatus # <<>> => Entries(kb)[k].entity = <<"task">>

(***************************************************************************)
(* host.py: background_process_entry alone, on an entry just appended      *)
(***************************************************************************)
\* a capture with a title only
NoContentEntry(captured) == BaseEntry(<<"idea">>, captured, <<"Idea">>)

\* the entries handed to background_process_entry: no content, short notes,
\* long notes, selected text only
EnrichEntries == {NoContentEntry(T2), IdeaEntry(T2), LongNoteEntry(T2), LinkEntry(T2)}

\* append_to_kb has written the entry above an older one and main has sent
\* the response; background_process_entry starts with an API key
EnrichInit ==
    /\ kb_exists = TRUE
    /\ files = {}
    /\ created = <<T1, T2>>
    /\ live = {T1, T2}
    /\ LastInit
    /\ server = ServerIdle
    /\ rt = RtIdle
    /\ \E e \in EnrichEntries :
          /\ kb = PrependEntry(PrependEntry(<<>>, IdeaEntry(T1), NoPath, NoPath),
                               e, NoPath, NoPath)
          /\ host = [h \in Hosts |->
                        [HostIdle EXCEPT !.pc = "summarize", !.received = MaxMessages,
                                         !.entry = e, !.api_key = TRUE,
                                         !.success = TRUE, !.responded = TRUE]]

EnrichNext ==
    \/ \E h \in Hosts, s \in Summaries \cup {<<>>} : Summarize(h, s)
    \/ \E h \in Hosts : ClassifyNone(h)
    \/ \E h \in Hosts, c \in ClassifyResults : Classify(h, c)
    \/ \E h \in Hosts, extracts, loads \in BOOLEAN : RelationshipsNone(h, extracts, loads)
    \/ \E h \in Hosts, r \in Resolutions : Relationships(h, r)
    \/ \E h \in Hosts : Resolved(h)
    \/ \E h \in Hosts, compares \in BOOLEAN : SimilarityNone(h, compares)
    \/ \E h \in Hosts, to \in AnswerTimestamps, now \in Nows : Similarity(h, to, now)
    \/ \E h \in Hosts : FieldRead(h)
    \/ \E h \in Hosts : FieldWrite(h)

EnrichSpec == EnrichInit /\ [][EnrichNext]_vars

\* the notes of the entry a host works on, trimmed, have fewer than 10
\* characters
NotesTooShort(h) == CharLen(Strip(Get(host[h].entry, "notes", <<>>))) < 10

\* the entry a host works on has no notes, no selected text and no summary
NothingToCompare(h) ==
    /\ Strip(Get(host[h].entry, "notes", <<>>)) = <<>>
    /\ Strip(Get(host[h].entry, "selectedText", <<>>)) = <<>>
    /\ host[h].summary = <<>>

\* C25: the relationship stage calls the reference-extraction capability only
\* if the trimmed notes of the entry have at least 10 characters, and the
\* similarity stage runs only if the entry has notes, selected text or a
\* summary; otherwise the stage ends without a capability call and without a
\* write to kb.md
C25_StagesSkippedWithoutContent ==
    [][\A h \in Hosts :
          /\ host[h].pc = "relationships" /\ host'[h].pc # "relationships" /\ NotesTooShort(h)
             => host'[h].pc = "similarity" /\ host'[h].called = {} /\ kb' = kb
          /\ host[h].pc = "similarity" /\ host'[h].pc # "similarity" /\ NothingToCompare(h)
             => host'[h].pc = "idle" /\ host'[h].called = {} /\ kb' = kb]_vars

\* background_process_entry has finished for an entry with a title only: no
\* summary was generated and the last stage called nothing
C25_Witness ==
    \E h \in Hosts :
        /\ host[h].pc = "idle"
        /\ host[h].entry = NoContentEntry(T2)
        /\ NotesTooShort(h) /\ NothingToCompare(h)
        /\ host[h].called = {}
        /\ kb = PrependEntry(PrependEntry(<<>>, IdeaEntry(T1), NoPath, NoPath),
                             NoContentEntry(T2), NoPath, NoPath)

(***************************************************************************)
(* sanitize_filename on file names given character by character            *)
(***************************************************************************)
\* a run of n times the same character
Repeat(char, n) == [i \in 1..n |-> char]

\* 63 letters as one word
LongRun == "aaaaaaaaaaaaaaaaaaaaaaaaaaaaaaaaaaaaaaaaaaaaaaaaaaaaaaaaaaaaaaa"

\* a name of n letters before the extension; a long one is three words and
\* then letter by letter, so that a cut at 190 or 200 falls between letters
Stem(n) == IF n >= 3 * Len(LongRun)
           THEN <<LongRun, LongRun, LongRun>> \o Repeat("a", n - 3 * Len(LongRun))
           ELSE Repeat("a", n)

\* what comes before the name: nothing, a parent directory, a dot, a
\* directory, a character outside the whitelist, a null byte
FilenameLeads == {<<>>, <<".", ".", "/">>, <<".">>, <<"d", "/">>, <<"*">>, <<NulByte>>}
\* the number of characters of the name before its extension
StemLengths == {0, 1, 189, 190, 195, 205}
\* the number of characters of the extension, 0 for a name without a dot
ExtensionLengths == {0, 3, 10, 12}
\* what comes after the name: nothing, a slash, a slash and a dot
FilenameTrails == {<<>>, <<"/">>, <<"/", ".">>}

Filenames ==
    {lead \o Stem(stem)
          \o (IF extension = 0 THEN <<>> ELSE <<".">> \o Repeat("b", extension))
          \o trail :
        lead \in FilenameLeads, stem \in StemLengths,
        extension \in ExtensionLengths, trail \in FilenameTrails}

FilenameInit ==
    /\ StoreInit /\ LastInit /\ ProcessesIdle
    /\ rt \in {[pc |-> "filename", filename |-> filename, safe |-> <<>>] :
                  filename \in Filenames}

Sanitize ==
    /\ rt.pc = "filename"
    /\ rt' = [rt EXCEPT !.pc = "sanitized", !.safe = sanitize_filename(rt.filename)]
    /\ UNCHANGED <<kb_exists, kb, files, host, server, created, live, last>>

FilenameNext == Sanitize

FilenameSpec == FilenameInit /\ [][FilenameNext]_vars

\* the characters re.sub leaves as they are
Whitelisted(name) == \A i \in 1..Len(name) : name[i] \notin UnsafeTokens

\* C26: for every input, sanitize_filename returns a non-empty name of at most
\* 200 characters, of whitelisted characters only, without a path separator
\* or a null byte, that does not start with a dot
C26_SafeNameWithinLimit ==
    rt.pc = "sanitized" =>
        /\ rt.safe # <<>>
        /\ CharLen(rt.safe) <= FilenameLimit
        /\ Whitelisted(rt.safe)
        /\ \A i \in 1..Len(rt.safe) : rt.safe[i] \notin {"/", "\\", NulByte}
        /\ Head(rt.safe) # "."

\* the number of lines append_to_kb has put before the content it read
NewLines == Len(kb) - Len(last.before)

\* C27: every entry written by append_to_kb is terminated in kb.md by exactly
\* one blank line: between the last content line of a newly prepended entry
\* and the header line of the entry that follows it there is exactly one
\* empty line
C27_OneBlankLineAfterNewEntry ==
    /\ last.op = "append_to_kb" /\ last.ok
    /\ last.existed /\ last.before # <<>> /\ IsDashLine(last.before[1])
    => /\ NewLines >= 2
       /\ IsBlank(kb[NewLines])
       /\ ~IsBlank(kb[NewLines - 1])

\* what a header line holds between its third and its fourth bar
TitleCell(line) == Strip(SplitOn(line, "|")[4])

\* a url that starts with http://, https://, file:// or chrome-extension://
StartsWithLinkScheme(url) ==
    \E scheme \in {"http://", "https://", "file://", "chrome-extension://"} :
        StartsWith(url, <<scheme>>)

\* C28: format_markdown_entry writes the title as a markdown link [Title](url)
\* if and only if the entry has a url that starts with http://, https://,
\* file:// or chrome-extension://; in every other case, an entry with a url of
\* another scheme included, the title is written as plain text and the url
\* does not appear in the header line
C28_TitleLinkedIffAllowedScheme ==
    rt.pc = "text" =>
        LET title == Get(rt.entry, "title", <<"Untitled">>)
            url == Get(rt.entry, "url", <<>>)
        IN  IF url # <<>> /\ StartsWithLinkScheme(url)
            THEN TitleCell(rt.text[1]) = <<"[">> \o title \o <<"]", "(">> \o url \o <<")">>
            ELSE /\ TitleCell(rt.text[1]) = title
                 /\ url # <<>> => ~Contains(rt.text[1], url)

\* an entry with a title, an ftp url and a tab group was formatted
C28_Witness ==
    /\ rt.pc = "text"
    /\ Get(rt.entry, "url", <<>>) = <<"ftp://", "x">>
    /\ Get(rt.entry, "title", <<>>) = <<"My", " ", "Title">>
    /\ "tabGroup" \in rt.entry.keys
    /\ TitleCell(rt.text[1]) = <<"My", " ", "Title">>

(***************************************************************************)
(* kb-server.py: the in-memory log of API calls                            *)
(***************************************************************************)
MAX_LOGS == 500

\* add_log with the newest entry taken off again instead of the oldest
add_log_dropping_newest(logs, log_entry) ==
    LET inserted == <<log_entry>> \o logs
    IN  IF Len(inserted) > MAX_LOGS THEN Tail(inserted) ELSE inserted

\* API_LOGS.insert(0, log_entry), then API_LOGS.pop() when the list is longer
\* than MAX_LOGS
add_log(logs, log_entry) ==
    LET inserted == <<log_entry>> \o logs
    IN  IF Len(inserted) > MAX_LOGS THEN SubSeq(inserted, 1, Len(inserted) - 1) ELSE inserted

\* the number of add_log calls of a run
MaxLogCalls == 502
\* the lengths of the log at which DELETE /api/logs arrives
LogClearLengths == {250, 500}

\* a log entry is the number of the add_log call that made it
LogInit ==
    /\ StoreInit /\ LastInit /\ ProcessesIdle
    /\ rt = [pc |-> "logs", API_LOGS |-> <<>>, calls |-> 0, op |-> "none", before |-> <<>>]

AddLog ==
    /\ rt.pc = "logs"
    /\ rt.calls < MaxLogCalls
    /\ rt' = [rt EXCEPT !.API_LOGS = add_log(rt.API_LOGS, rt.calls + 1),
                        !.calls = rt.calls + 1,
                        !.op = "add_log", !.before = rt.API_LOGS]
    /\ UNCHANGED <<kb_exists, kb, files, host, server, created, live, last>>

\* do_DELETE on /api/logs
ClearLogs ==
    /\ rt.pc = "logs"
    /\ Len(rt.API_LOGS) \in LogClearLengths
    /\ rt' = [rt EXCEPT !.API_LOGS = <<>>, !.op = "clear", !.before = rt.API_LOGS]
    /\ UNCHANGED <<kb_exists, kb, files, host, server, created, live, last>>

LogNext == AddLog \/ ClearLogs

LogSpec == LogInit /\ [][LogNext]_vars

\* every entry of a log was made after the entries behind it
NewestFirst(logs) == \A i \in 1..(Len(logs) - 1) : logs[i] > logs[i + 1]

\* C29: after any sequence of add_log calls and log clears the log holds at
\* most 500 entries, newest first; an add_log on a full log evicts exactly the
\* oldest entry and no other
C29_LogBoundedNewestFirst ==
    rt.pc = "logs" =>
        /\ Len(rt.API_LOGS) <= 500
        /\ NewestFirst(rt.API_LOGS)
        /\ rt.op = "add_log" =>
              /\ rt.API_LOGS[1] = rt.calls
              /\ Tail(rt.API_LOGS) = IF Len(rt.before) = 500
                                     THEN SubSeq(rt.before, 1, 499) ELSE rt.before
        /\ rt.op = "clear" => rt.API_LOGS = <<>>

\* an entry was added to a full log that had lost its oldest entry before
C29_Witness ==
    /\ rt.pc = "logs" /\ rt.op = "add_log"
    /\ Len(rt.before) = 500 /\ rt.before[500] > 1
    /\ Len(rt.API_LOGS) = 500
    /\ rt.API_LOGS[500] = rt.before[499]

(***************************************************************************)
(* host.py: the field writers on a kb.md whose newest entry is followed by *)
(* an older entry of either format                                         *)
(***************************************************************************)
\* the entry the writers are called for: its header, its notes if it has
\* any, its Entity line if it is classified already
TargetLines(notes, classified) ==
    <<MainLine(BaseEntry(<<"idea">>, T2, <<"Idea">>))>>
    \o NoteLines(notes)
    \o (IF classified THEN <<Field(<<"Entity">>, <<"idea">>)>> ELSE <<>>)

\* the older entry that follows it: a header of the legacy or of the current
\* format, and its notes if it has any
FollowingLines(legacy, notes) ==
    <<IF legacy THEN LegacyLine(<<"Old", " ", "Title">>, <<>>, <<"idea">>, T1, <<>>)
                ELSE MainLine(BaseEntry(<<"idea">>, T1, <<"Old", " ", "Title">>))>>
    \o NoteLines(notes)

TargetNotes == {<<>>, <<"fix", " ", "login">>, <<"first", "\n", "second">>}
FollowingNotes == {<<>>, <<"old", " ", "note">>}

\* the two entries, with or without an empty line between them
TwoEntryStores ==
    {TargetLines(notes, classified)
         \o (IF blank THEN << <<>> >> ELSE <<>>)
         \o FollowingLines(legacy, old_notes) :
        notes \in TargetNotes, classified \in BOOLEAN, blank \in BOOLEAN,
        legacy \in BOOLEAN, old_notes \in FollowingNotes}

\* the number of field writes of a run
MaxWrites == 2

FieldInit ==
    /\ StoreInit /\ LastInit /\ ProcessesIdle
    /\ rt \in {[pc |-> "store", lines |-> lines, before |-> lines, op |-> "none",
                writes |-> 0] : lines \in TwoEntryStores}

\* a field writer called for the newest entry: res is what it returns
WriteField(op, res) ==
    /\ rt.pc = "store"
    /\ rt.writes < MaxWrites
    /\ rt' = [rt EXCEPT !.lines = res.lines, !.before = rt.lines, !.op = op,
                        !.writes = rt.writes + 1]
    /\ UNCHANGED <<kb_exists, kb, files, host, server, created, live, last>>

FieldSummary ==
    \E summary \in Summaries :
        WriteField("add_summary_to_entry", add_summary_to_entry(rt.lines, T2, summary))
FieldClassification ==
    \E classification \in Classifications :
        WriteField("add_classification_to_entry",
                   add_classification_to_entry(rt.lines, T2, classification))
FieldRelationships ==
    WriteField("add_relationships_to_entry",
               add_relationships_to_entry(rt.lines, T2, RefsTo(T1, <<"idea">>)))
FieldSimilar ==
    WriteField("add_similar_to_entry",
               add_similar_to_entry(rt.lines, T2, RefsTo(T1, <<"85">>)))

FieldNext == FieldSummary \/ FieldClassification \/ FieldRelationships \/ FieldSimilar

FieldSpec == FieldInit /\ [][FieldNext]_vars

\* the header of the entry that follows the first one: the next line that
\* starts with a dash and a space, as both formats do
FollowingHeader(lines) == FirstFrom(lines, 2, LAMBDA l : IsDashLine(l))

\* the lines of a file from the header of its second entry on
FromFollowingHeader(lines) == SubSeq(lines, FollowingHeader(lines), Len(lines))

\* C30: every line a field writer inserts for timestamp T is placed inside
\* T's own entry, after T's header line and before the next entry header of
\* either format, so the write neither adds a line to another entry nor alters
\* one, also when the entry that follows T is in the legacy format
C30_FieldWriteStaysInOwnEntry ==
    rt.pc = "store" /\ rt.op # "none" =>
        /\ rt.lines[1] = rt.before[1]
        /\ FromFollowingHeader(rt.lines) = FromFollowingHeader(rt.before)

(***************************************************************************)
(* load_all_entries and parse_kb_markdown on the same kb.md                *)
(***************************************************************************)
ReadInit ==
    /\ StoreInit /\ LastInit /\ ProcessesIdle
    /\ rt \in {[pc |-> "file", lines |-> lines, read |-> {}, loaded |-> <<>>,
                parsed |-> <<>>] : lines \in TwoEntryStores}

\* a resolver loads the file
ResolverLoad ==
    /\ rt.pc = "file"
    /\ "load_all_entries" \notin rt.read
    /\ rt' = [rt EXCEPT !.read = @ \cup {"load_all_entries"},
                        !.loaded = load_all_entries(rt.lines)]
    /\ UNCHANGED <<kb_exists, kb, files, host, server, created, live, last>>

\* the viewer parses the file
ViewerParse ==
    /\ rt.pc = "file"
    /\ "parse_kb_markdown" \notin rt.read
    /\ rt' = [rt EXCEPT !.read = @ \cup {"parse_kb_markdown"},
                        !.parsed = Entries(rt.lines)]
    /\ UNCHANGED <<kb_exists, kb, files, host, server, created, live, last>>

ReadNext == ResolverLoad \/ ViewerParse

ReadSpec == ReadInit /\ [][ReadNext]_vars

\* C31: load_all_entries and parse_kb_markdown agree on every file: the same
\* sequence of entry timestamps and, for each entry, the same title, entity,
\* topics, people, notes and AI summary, also for files with legacy-format
\* entries and multi-line Notes blocks
C31_LoaderAndParserAgree ==
    rt.pc = "file" /\ rt.read = {"load_all_entries", "parse_kb_markdown"} =>
        /\ TimestampsOf(rt.loaded) = TimestampsOf(rt.parsed)
        /\ \A k \in 1..Len(rt.loaded) :
              \A field \in {"title", "entity", "topics", "people", "content", "aiSummary"} :
                  rt.loaded[k][field] = rt.parsed[k][field]

(***************************************************************************)
(* background_process_entry with capabilities that answer with any         *)
(* timestamp: of the older entry, of the entry itself, of no entry         *)
(***************************************************************************)
AnyTimestamps == {T1, T2, <<"T3">>}
AnyResolutions ==
    {[timestamp |-> ts, confidence |-> confidence] :
        ts \in AnyTimestamps, confidence \in {"high", "low"}}

AnswerNext ==
    \/ \E h \in Hosts, s \in Summaries \cup {<<>>} : Summarize(h, s)
    \/ \E h \in Hosts : ClassifyNone(h)
    \/ \E h \in Hosts, c \in ClassifyResults : Classify(h, c)
    \/ \E h \in Hosts, extracts, loads \in BOOLEAN : RelationshipsNone(h, extracts, loads)
    \/ \E h \in Hosts, r \in AnyResolutions : Relationships(h, r)
    \/ \E h \in Hosts : Resolved(h)
    \/ \E h \in Hosts, compares \in BOOLEAN : SimilarityNone(h, compares)
    \/ \E h \in Hosts, to \in AnyTimestamps, now \in Nows : Similarity(h, to, now)
    \/ \E h \in Hosts : FieldRead(h)
    \/ \E h \in Hosts : FieldWrite(h)

AnswerSpec == EnrichInit /\ [][AnswerNext]_vars

\* the timestamps a writer call names
NamedBy(arg) == {arg[k].timestamp : k \in 1..Len(arg)}

\* the entries fuzzy_search_candidates can hand to resolve_with_ai: entries of
\* the store that load_all_entries returned, the current one left out
Resolvable(h) == Range(TimestampsOf(h.all_entries)) \ {h.entry.captured}

\* C32: every timestamp the pipeline writes into a Related or Similar line is
\* the timestamp of one of the candidate entries supplied to the capability
\* for that decision, hence of an entry of the store other than the entry
\* being enriched, whatever the capability returns
C32_WrittenTimestampsAreCandidates ==
    [][\A h \in Hosts :
          host[h].pc = "field_write" /\ kb' # kb =>
              /\ host[h].op = "add_relationships_to_entry"
                    => NamedBy(host[h].arg) \subseteq Resolvable(host[h])
              /\ host[h].op = "add_similar_to_entry"
                    => NamedBy(host[h].arg) \subseteq Range(host[h].similarity_candidates)]_vars

\* the header line of the one entry of a file that carries a timestamp
OwnHeader(lines, ts) == CHOOSE i \in HeadersOf(lines, ts) : TRUE

\* the Notes line of the entry whose header is line i, 0 when it has none
NotesLineOf(lines, i) ==
    LET Found == {j \in (i + 1)..LastLineOf(lines, i) : IsFieldLine(lines[j], <<"Notes">>)}
    IN  IF Found = {} THEN 0 ELSE CHOOSE j \in Found : \A k \in Found : j <= k

\* the line after the Notes block that starts at line n: the first line from
\* n + 1 on that is not indented by four spaces
AfterNotesBlock(lines, n) == FirstFrom(lines, n + 1, LAMBDA l : ~StartsWith(l, Indent4))

\* exactly one entry carries the timestamp, and it has a Notes block
HasNotesBlock(lines, ts) ==
    /\ Cardinality(HeadersOf(lines, ts)) = 1
    /\ NotesLineOf(lines, OwnHeader(lines, ts)) > 0

\* C33: update_entry_notes on an entry that has a Notes block replaces the
\* whole block, the Notes line and all its continuation lines, by the lines of
\* the new notes, leaves no line of the old block behind and leaves every line
\* outside the block, of this entry and of the others, as it was
C33_NotesBlockReplaced ==
    /\ last.op = "update_entry_notes" /\ last.existed
    /\ HasNotesBlock(last.before, last.ts)
    => LET n == NotesLineOf(last.before, OwnHeader(last.before, last.ts))
       IN  /\ last.ok
           /\ kb = SubSeq(last.before, 1, n - 1)
                   \o NoteLines(last.arg)
                   \o SubSeq(last.before, AfterNotesBlock(last.before, n), Len(last.before))

\* C34: for every corpus and every combination of filters,
\* fuzzy_search_candidates never returns the entry whose timestamp is the
\* current timestamp and never returns an entry whose entity differs from a
\* type filter other than any
C34_NeverSelfNeverOtherType ==
    rt.pc = "found" =>
        \A k \in 1..Len(rt.candidates) :
            /\ rt.candidates[k].timestamp # rt.current_timestamp
            /\ rt.target_type \notin {<<>>, <<"any">>}
                  => rt.candidates[k].entity = rt.target_type

\* a search from the timestamp of B, without a type filter, on a description
\* that says something of B has returned A alone
C34_Witness ==
    /\ rt.pc = "found"
    /\ rt.current_timestamp = T2
    /\ rt.target_type = <<"any">> /\ rt.temporal_hint = <<"none">>
    /\ Describes(rt.target_description, StoredAt(T2))
    /\ rt.candidates = <<StoredAt(T1)>>
(***************************************************************************)
(* host.py: update_last_entry on an entry with side-file references        *)
(***************************************************************************)
\* the paperclip character of the test startswith('  - [' + paperclip)
Paperclip == "PAPERCLIP"

\* a line the scan of update_last_entry takes for old content
IsOldContent(line) ==
    /\ StartsWith(line, Bullet)
    /\ ~StartsWith(line, Bullet \o <<"!", "[">>)
    /\ ~StartsWith(line, Bullet \o <<"[", Paperclip>>)

\* a line the scan for the insert position steps over
IsLinkLine(line) ==
    \/ StartsWith(line, Bullet \o <<"!", "[">>)
    \/ StartsWith(line, Bullet \o <<"[", Paperclip>>)

\* the inner loop from line j on: the first content line is replaced, the
\* later ones are popped, up to the next '- ' line or a blank line that is not
\* the last line
RECURSIVE ReplaceContent(_, _, _, _)
ReplaceContent(lines, j, new_content, content_found) ==
    IF j > Len(lines) THEN [lines |-> lines, content_found |-> content_found]
    ELSE IF IsOldContent(lines[j])
    THEN IF ~content_found
         THEN ReplaceContent([lines EXCEPT ![j] = Bullet \o new_content], j + 1,
                             new_content, TRUE)
         ELSE ReplaceContent(SubSeq(lines, 1, j - 1) \o SubSeq(lines, j + 1, Len(lines)),
                             j, new_content, TRUE)
    ELSE IF IsDashLine(lines[j]) \/ (j < Len(lines) /\ IsBlank(lines[j]))
    THEN [lines |-> lines, content_found |-> content_found]
    ELSE ReplaceContent(lines, j + 1, new_content, content_found)

update_last_entry(lines, timestamp, new_content) ==
    LET i == FindEntry(lines, timestamp)
        scanned == ReplaceContent(lines, i + 1, new_content, FALSE)
        insert_pos == FirstFrom(lines, i + 1, LAMBDA l : ~IsLinkLine(l))
    IN  IF i > Len(lines) THEN Failed(lines)
        ELSE IF scanned.content_found THEN Written(scanned.lines)
        ELSE IF Strip(new_content) # <<>>
        THEN Written(InsertAt(lines, insert_pos, <<Bullet \o new_content>>))
        ELSE Failed(lines)

\* the captures update_last_entry is called for: a note, a screenshot and an
\* uploaded file, each with or without notes and selected text
UpdateNotes == {<<>>, <<"seen">>, <<"first", "\n", "second">>}
UpdateQuotes == {<<>>, <<"quoted">>}
UpdateKinds == {"idea", "screenshot", "pdf"}
CapturedEntry(kind, notes, quote) ==
    LET base == BaseEntry(<<kind>>, T2, <<"Shot">>)
        noted == IF notes # <<>> THEN With(base, "notes", notes) ELSE base
    IN  IF quote # <<>> THEN With(noted, "selectedText", quote) ELSE noted

\* kb.md after append_to_kb wrote the capture in front of what was there
UpdateStores ==
    {PrependEntry(existing,
                  CapturedEntry(kind, notes, quote),
                  IF kind = "screenshot" THEN ScreenshotPath(T2) ELSE <<>>,
                  IF kind = "pdf" THEN FilePath(<<"report", ".", "pdf">>, T2) ELSE <<>>) :
        kind \in UpdateKinds, notes \in UpdateNotes, quote \in UpdateQuotes,
        existing \in {<<>>, FollowingLines(FALSE, <<"old", " ", "note">>)}}

UpdateContents == {<<>>, <<"new", " ", "text">>}
MaxUpdates == 2

UpdateInit ==
    /\ StoreInit /\ LastInit /\ ProcessesIdle
    /\ rt \in {[pc |-> "store", lines |-> lines, before |-> lines, ok |-> FALSE,
                timestamp |-> <<>>, updates |-> 0] : lines \in UpdateStores}

\* the message update_last_entry, handled by main
UpdateLastEntry ==
    /\ rt.pc = "store"
    /\ rt.updates < MaxUpdates
    /\ \E timestamp \in {T1, T2}, new_content \in UpdateContents :
          LetIn(update_last_entry(rt.lines, timestamp, new_content), LAMBDA res :
              rt' = [rt EXCEPT !.lines = res.lines, !.before = rt.lines, !.ok = res.ok,
                               !.timestamp = timestamp, !.updates = rt.updates + 1])
    /\ UNCHANGED <<kb_exists, kb, files, host, server, created, live, last>>

UpdateNext == UpdateLastEntry

UpdateSpec == UpdateInit /\ [][UpdateNext]_vars

\* the lines that refer to a side-file: the screenshot and the attachment
IsSideFileLine(line) ==
    \/ StartsWith(line, Bullet \o <<"!", "[", "Screenshot", "]", "(">>)
    \/ StartsWith(line, Bullet \o <<"[", "Attachment", "]", "(">>)
SideFileLines(lines) == SelectSeq(lines, IsSideFileLine)

\* C35: update_last_entry preserves the entry's side-file references: after
\* the call the entry still contains its screenshot line and its
\* file-attachment line, unchanged, and only free-text content lines of that
\* entry have been replaced or removed
C35_SideFileLinesPreserved ==
    rt.pc = "store" /\ rt.updates > 0 =>
        /\ SideFileLines(rt.lines) = SideFileLines(rt.before)
        /\ \A k \in 1..Len(rt.before) :
              ~IsContent(rt.before[k]) => \E n \in 1..Len(rt.lines) : rt.lines[n] = rt.before[k]

(***************************************************************************)
(* host.py: main and background_process_entry run to the next read_message *)
(***************************************************************************)
\* every step of a native host between read_message and the next
\* read_message: append_to_kb, send_message, the stages of
\* background_process_entry with each capability call returning an answer or
\* nothing, and the field writers
HostStep(h) ==
    \/ \E saved \in BOOLEAN : SaveScreenshot(h, saved)
    \/ \E saved \in BOOLEAN : SaveFile(h, saved)
    \/ AppendRead(h)
    \/ AppendWrite(h)
    \/ SendMessage(h)
    \/ \E s \in Summaries \cup {<<>>} : Summarize(h, s)
    \/ ClassifyNone(h)
    \/ \E c \in ClassifyResults : Classify(h, c)
    \/ \E extracts, loads \in BOOLEAN : RelationshipsNone(h, extracts, loads)
    \/ \E r \in Resolutions : Relationships(h, r)
    \/ Resolved(h)
    \/ \E compares \in BOOLEAN : SimilarityNone(h, compares)
    \/ \E to \in AnswerTimestamps, now \in Nows : Similarity(h, to, now)
    \/ FieldRead(h)
    \/ FieldWrite(h)

\* main: read_message, then the steps up to the next read_message
LiveNext ==
    \/ \E h \in Hosts, e \in HostEntries, api_key \in BOOLEAN : Receive(h, e, api_key)
    \/ \E h \in Hosts : HostStep(h)

\* a native host on its own, where a host that is not waiting in read_message
\* goes on to its next step: every call returns, with an answer or without
LiveSpec == Init /\ [][LiveNext]_vars /\ \A h \in Hosts : WF_vars(HostStep(h))

\* C36: every message the native host receives is eventually answered and
\* every started enrichment pipeline eventually finishes, provided each
\* capability call returns or times out: the message loop always returns to
\* reading the next message
C36_AnsweredAndFinished ==
    \A h \in Hosts :
        host[h].pc # "idle" ~> (host[h].pc = "idle" /\ host[h].responded)

\* a host back in read_message after a message whose pipeline ran to its
\* last stage
C36_Witness ==
    \E h \in Hosts :
        /\ host[h].pc = "idle"
        /\ host[h].received > 0
        /\ host[h].responded
        /\ "find_similar_entries" \in host[h].called

(***************************************************************************)
(* settings.json, the project folder the native host persists and the      *)
(* project folder the kb-server works in                                   *)
(***************************************************************************)
\* the folders a user chooses, and the folder of kb-server.py
Folders == {<<"/work/a">>, <<"/work/b">>}
ScriptParent == <<"/src">>
\* _PROJECT_FOLDER_CACHE = None, and settings.json without project_folder
NoFolder == <<>>

\* get_project_folder: the folder it returns and the cache it leaves
get_project_folder(cache, settings) ==
    IF cache # NoFolder THEN [folder |-> cache, cache |-> cache]
    ELSE IF settings # NoFolder THEN [folder |-> settings, cache |-> settings]
    ELSE [folder |-> ScriptParent, cache |-> ScriptParent]

MaxFolderMessages == 3
MaxFolderRequests == 3
ServerRequests == {"read", "delete_entry", "update_entry_status"}

\* settings: project_folder in settings.json; cache: _PROJECT_FOLDER_CACHE;
\* persisted: the folder the host wrote to settings.json last; host_folder and
\* server_folder: the folder of the kb.md the host appended to last and of the
\* kb.md the last request of the kb-server used
FolderInit ==
    /\ StoreInit /\ LastInit /\ ProcessesIdle
    /\ rt \in {[pc |-> "down", settings |-> settings, cache |-> NoFolder,
                persisted |-> NoFolder, host_folder |-> NoFolder,
                server_folder |-> NoFolder, request |-> "none",
                messages |-> 0, requests |-> 0] : settings \in Folders \cup {NoFolder}}

\* kb-server main: get_project_folder, chdir, serve_forever
ServerStart ==
    /\ rt.pc = "down"
    /\ rt' = [rt EXCEPT !.pc = "up",
                        !.cache = get_project_folder(rt.cache, rt.settings).cache]
    /\ UNCHANGED <<kb_exists, kb, files, host, server, created, live, last>>

\* host main, an append message: projectFolder is persisted when it differs
\* from the one in settings.json, and append_to_kb writes kb.md in it
HostAppend(project_folder) ==
    /\ rt.messages < MaxFolderMessages
    /\ rt' = [rt EXCEPT !.settings = project_folder,
                        !.persisted = IF rt.settings # project_folder
                                      THEN project_folder ELSE @,
                        !.host_folder = project_folder,
                        !.request = "none",
                        !.messages = @ + 1]
    /\ UNCHANGED <<kb_exists, kb, files, host, server, created, live, last>>

\* a request of the viewer: do_GET reading kb.md, delete_entry or
\* update_entry_status
ServerRequest(request) ==
    /\ rt.pc = "up"
    /\ rt.requests < MaxFolderRequests
    /\ LetIn(get_project_folder(rt.cache, rt.settings), LAMBDA got :
          rt' = [rt EXCEPT !.cache = got.cache, !.server_folder = got.folder,
                           !.request = request, !.requests = @ + 1])
    /\ UNCHANGED <<kb_exists, kb, files, host, server, created, live, last>>

FolderNext ==
    \/ ServerStart
    \/ \E project_folder \in Folders : HostAppend(project_folder)
    \/ \E request \in ServerRequests : ServerRequest(request)

FolderSpec == FolderInit /\ [][FolderNext]_vars

\* C37: the kb-server and the native host always operate on the same kb.md,
\* with settings.json as the single source of truth for the project folder:
\* once the host has persisted a new project_folder, every later kb-server
\* request (read, delete_entry, update_entry_status) uses the kb.md of that
\* new folder
C37_ServerUsesPersistedFolder ==
    rt.pc = "up" /\ rt.request # "none" /\ rt.persisted # NoFolder =>
        rt.server_folder = rt.persisted

=============================================================================
